---------------------------- MODULE Spec2Model ----------------------------
(***************************************************************************)
(* A model of the Philote C++ bindings: the Variable array codec           *)
(* (src/src/utils/variable.cpp), the discipline, explicit and implicit       *)
(* servers (src/src/discipline/discipline_server.cpp,                        *)
(* src/include/explicit.h, src/include/implicit.h) and the discipline,       *)
(* explicit and implicit clients (src/src/discipline/discipline_client.cpp,  *)
(* src/src/explicit/explicit_client.cpp,                                     *)
(* src/src/implicit/implicit_client.cpp).                                    *)
(*                                                                           *)
(* Eight specifications share the module:                                    *)
(*   SpecCodec     one Variable::Send followed by AssignChunk of its chunks  *)
(*   SpecAssign    Variable::AssignChunk on arbitrary chunks                 *)
(*   SpecServer    one server RPC at a time on a discipline that was set up: *)
(*                 Setup, SetOptions, SetStreamOptions, the queries, the     *)
(*                 computes                                                  *)
(*   SpecFresh     the same server on a discipline just constructed          *)
(*   SpecClient    one client call at a time                                 *)
(*   SpecDeclare   AddInput, AddOutput and DeclarePartials of a discipline   *)
(*   SpecConstruct the Variable constructors                                 *)
(*   SpecInstances RPCs on two disciplines of one process, interleaved       *)
(* Each leaves the variables of the others at their initial values.          *)
(***************************************************************************)
EXTENDS Integers, Sequences, FiniteSets, TLC

(***************************************************************************)
(* Bounds of the model.                                                      *)
(***************************************************************************)
\* longest buffer sent in SpecCodec
MaxLen == 4
\* largest chunk size in SpecCodec
MaxChunk == 3
\* buffer elements are drawn from 0..MaxVal
MaxVal == 1
\* longest target buffer in SpecAssign
MaxBuf == 3
\* largest negotiated chunk size in SpecServer
MaxSrvChunk == 2
\* largest start or end index of an inbound chunk in SpecServer
MaxIdx == 2
\* most chunks one RPC reads from its inbound stream in SpecServer
MaxReads == 2
\* most RPCs one server handles in SpecServer
MaxRpcs == 2
\* largest negotiated chunk size in SpecClient
MaxCliChunk == 2
\* largest start or end index of a response chunk in SpecClient
MaxCliIdx == 2
\* most chunks one call reads from its stream in SpecClient
MaxCliReads == 1
\* most calls one client makes in SpecClient
MaxCalls == 2
\* the variables a discipline declares
MaxMeta == 2
\* the DeclarePartials calls of a discipline
MaxDecls == 2
\* the dimensions of a constructed Variable, each of 0 .. MaxDim
MaxRank == 3
MaxDim == 3
\* stream->Read calls of one RPC on each of the two disciplines in one process
MaxInstReads == 1

(***************************************************************************)
(* Machine integers.  size_t is 64 bits wide in the program; the only        *)
(* wrap-around the code can reach is n - 1 for n = 0 (variable.cpp:183),     *)
(* which yields the largest size_t.  SIZE_MAX stands for that value: it is   *)
(* larger than every buffer length, which is all the code compares it with.  *)
(***************************************************************************)
SIZE_MAX == 2147483647
INT_MAX == 2147483647

\* size_t subtraction n - 1
SizeDec(n) == IF n = 0 THEN SIZE_MAX ELSE n - 1

\* static_cast<int>(x) of a size_t x (two's complement truncation to 32 bits)
ToInt(x) == IF x <= INT_MAX THEN x ELSE x - INT_MAX - INT_MAX - 2

Values == 0 .. MaxVal

NoExc == "none"

\* std::vector<double>::resize(size) on an empty vector: size zeros
Zeros(n) == [k \in 1 .. n |-> 0]

RECURSIVE Product(_)
\* size = 1; for (i : shape_) size *= i;
Product(shape) ==
    IF shape = << >> THEN 1 ELSE Head(shape) * Product(Tail(shape))

\* Variable::Variable(type, shape) / Variable(meta): type_, shape_, data_
Variable(type, shape) ==
    [type |-> type, shape |-> shape, data |-> Zeros(Product(shape))]

\* Variable() = default: no shape, an empty buffer
DefaultVariable == [type |-> "kInput", shape |-> << >>, data |-> << >>]

(***************************************************************************)
(* Variable::Segment (getter): the slice [start, end] of the buffer, or the  *)
(* exception thrown.                                                         *)
(***************************************************************************)
Segment(data, start, end) ==
    IF start > end THEN [exc |-> "invalid_argument", data |-> << >>]
    ELSE IF end >= Len(data) THEN [exc |-> "out_of_range", data |-> << >>]
    ELSE [exc |-> NoExc,
          data |-> [k \in 1 .. (end - start + 1) |-> data[start + k]]]

(***************************************************************************)
(* Variable::CreateChunk: the Array message for [start, end], or the         *)
(* exception Segment throws.  name and subname are set by Send afterwards.   *)
(***************************************************************************)
CreateChunk(var, start, end) ==
    LET seg == Segment(var.data, start, end)
    IN  [exc |-> seg.exc,
         chunk |-> [name |-> "", subname |-> "", start |-> start, end |-> end,
                    type |-> var.type, data |-> seg.data]]

(***************************************************************************)
(* Variable::Send, the loop's arithmetic.                                    *)
(***************************************************************************)
\* mutant: ceiling division
NumChunksCeil(n, chunk_size) ==
    IF n = 0 THEN 1 ELSE (n + chunk_size - 1) \div chunk_size

\* n / chunk_size where the division returns: a division by zero is undefined
\* and either traps or, where the divide instruction does not trap, yields 0
Quotient(n, chunk_size) == IF chunk_size = 0 THEN 0 ELSE n \div chunk_size

\* num_chunks = n / chunk_size; if (num_chunks == 0) num_chunks = 1;
NumChunks(n, chunk_size) ==
    IF Quotient(n, chunk_size) = 0 THEN 1 ELSE Quotient(n, chunk_size)

\* start = i * chunk_size
ChunkStart(i, chunk_size) == i * chunk_size

\* mutant: the end is computed as if it were exclusive
ChunkEndExclusive(i, chunk_size, n) ==
    LET end == ChunkStart(i, chunk_size) + chunk_size
    IN  IF end >= n THEN SizeDec(n) ELSE end

\* end = start + chunk_size - 1; if (end >= n) end = n - 1;
ChunkEnd(i, chunk_size, n) ==
    LET end == SizeDec(ChunkStart(i, chunk_size) + chunk_size)
    IN  IF end >= n THEN SizeDec(n) ELSE end

\* array = CreateChunk(start, end); array.set_name(name); array.set_subname(subname);
SendChunk(var, name, subname, i, chunk_size) ==
    LET n == Len(var.data)
        c == CreateChunk(var, ChunkStart(i, chunk_size), ChunkEnd(i, chunk_size, n))
    IN  [exc |-> c.exc,
         chunk |-> [c.chunk EXCEPT !.name = name, !.subname = subname]]

(***************************************************************************)
(* Variable::AssignChunk: the buffer afterwards, the exception thrown and    *)
(* the buffer indices written.                                               *)
(***************************************************************************)
\* mutant: the range check against the buffer length is off by one
AssignChunkOffByOne(data, chunk) ==
    IF chunk.start < 0 THEN [exc |-> "invalid_argument", data |-> data, writes |-> {}]
    ELSE IF chunk.end < 0 THEN [exc |-> "invalid_argument", data |-> data, writes |-> {}]
    ELSE IF chunk.start > chunk.end
        THEN [exc |-> "invalid_argument", data |-> data, writes |-> {}]
    ELSE IF chunk.end > Len(data)
        THEN [exc |-> "out_of_range", data |-> data, writes |-> {}]
    ELSE IF Len(chunk.data) # ToInt(chunk.end - chunk.start + 1)
        THEN [exc |-> "length_error", data |-> data, writes |-> {}]
    ELSE [exc |-> NoExc,
          data |-> [k \in 1 .. Len(data) |->
                      IF k - 1 >= chunk.start /\ k - 1 <= chunk.end
                      THEN chunk.data[k - chunk.start] ELSE data[k]],
          writes |-> chunk.start .. chunk.end]

\* mutant: the payload is copied before its length is checked
AssignChunkWriteFirst(data, chunk) ==
    IF chunk.start < 0 THEN [exc |-> "invalid_argument", data |-> data, writes |-> {}]
    ELSE IF chunk.end < 0 THEN [exc |-> "invalid_argument", data |-> data, writes |-> {}]
    ELSE IF chunk.start > chunk.end
        THEN [exc |-> "invalid_argument", data |-> data, writes |-> {}]
    ELSE IF chunk.end >= Len(data)
        THEN [exc |-> "out_of_range", data |-> data, writes |-> {}]
    ELSE LET m == IF Len(chunk.data) < chunk.end - chunk.start + 1
                  THEN Len(chunk.data) ELSE chunk.end - chunk.start + 1
             new == [k \in 1 .. Len(data) |->
                       IF k - 1 >= chunk.start /\ k - 1 < chunk.start + m
                       THEN chunk.data[k - chunk.start] ELSE data[k]]
         IN  IF Len(chunk.data) # ToInt(chunk.end - chunk.start + 1)
             THEN [exc |-> "length_error", data |-> new,
                   writes |-> chunk.start .. (chunk.start + m - 1)]
             ELSE [exc |-> NoExc, data |-> new, writes |-> chunk.start .. chunk.end]

\* mutant: an element already written by an earlier chunk is kept
AssignChunkKeepsFirst(data, chunk) ==
    IF chunk.start < 0 THEN [exc |-> "invalid_argument", data |-> data, writes |-> {}]
    ELSE IF chunk.end < 0 THEN [exc |-> "invalid_argument", data |-> data, writes |-> {}]
    ELSE IF chunk.start > chunk.end
        THEN [exc |-> "invalid_argument", data |-> data, writes |-> {}]
    ELSE IF chunk.end >= Len(data)
        THEN [exc |-> "out_of_range", data |-> data, writes |-> {}]
    ELSE IF Len(chunk.data) # ToInt(chunk.end - chunk.start + 1)
        THEN [exc |-> "length_error", data |-> data, writes |-> {}]
    ELSE [exc |-> NoExc,
          data |-> [k \in 1 .. Len(data) |->
                      IF k - 1 >= chunk.start /\ k - 1 <= chunk.end /\ data[k] = 0
                      THEN chunk.data[k - chunk.start] ELSE data[k]],
          writes |-> chunk.start .. chunk.end]

AssignChunk(data, chunk) ==
    IF chunk.start < 0 THEN [exc |-> "invalid_argument", data |-> data, writes |-> {}]
    ELSE IF chunk.end < 0 THEN [exc |-> "invalid_argument", data |-> data, writes |-> {}]
    ELSE IF chunk.start > chunk.end
        THEN [exc |-> "invalid_argument", data |-> data, writes |-> {}]
    ELSE IF chunk.end >= Len(data)
        THEN [exc |-> "out_of_range", data |-> data, writes |-> {}]
    ELSE IF Len(chunk.data) # ToInt(chunk.end - chunk.start + 1)
        THEN [exc |-> "length_error", data |-> data, writes |-> {}]
    ELSE [exc |-> NoExc,
          data |-> [k \in 1 .. Len(data) |->
                      IF k - 1 >= chunk.start /\ k - 1 <= chunk.end
                      THEN chunk.data[k - chunk.start] ELSE data[k]],
          writes |-> chunk.start .. chunk.end]


(***************************************************************************)
(* State.                                                                    *)
(***************************************************************************)
VARIABLES
    \* SpecCodec: one Send of `var`, and a receiver applying what was written
    var,            \* the Variable being sent (type_, shape_, data_)
    chunk_size,     \* the chunk_size argument of Send
    overload,       \* which Send overload runs
    context,        \* the ServerContext* argument: "null" or "live"
    cancelled,      \* context->IsCancelled()
    sendPc,         \* "init", "loop", "returned", "threw"
    sendI,          \* the loop counter i
    num_chunks,     \* the local num_chunks
    stream,         \* the chunks stream->Write accepted, in order
    sendExc,        \* the exception Send threw
    recvData,       \* the receiver's buffer, zero-initialised
    recvCount,      \* how many chunks of stream the receiver has applied
    recvExc,        \* the exception an AssignChunk of the receiver threw
    \* SpecAssign: AssignChunk of arbitrary chunks on one buffer
    target,         \* data_ of the receiving Variable
    before,         \* data_ as it was before the last AssignChunk
    lastChunk,      \* the last chunk passed to AssignChunk
    lastExc,        \* what that call threw
    lastWrites,     \* the indices of data_ that call wrote
    assignPc,       \* "ready" before the AssignChunk call, "called" after it
    \* SpecServer: the discipline and the compute RPC in progress
    service,        \* "explicit" (ExplicitServer) or "implicit" (ImplicitServer)
    implementation_,\* the server's discipline pointer: "linked" or "null"
    var_meta_,      \* Discipline::var_meta_
    partials_meta_, \* Discipline::partials_meta_
    stream_opts_,   \* Discipline::stream_opts_ (num_double)
    rpc,            \* the compute RPC being handled, "none" when idle
    srvPc,          \* "idle", "reading", "callback", "sending", "done"
    array,          \* the handler's local `array`: the last chunk read
    reads,          \* the chunks stream->Read has delivered in this RPC
    inputs,         \* the handler's local Variables inputs
    outputs,        \* the handler's local Variables outputs
    results,        \* the map the handler sends back (outputs, residuals, partials)
    callbackCalls,  \* how often this RPC invoked the user callback
    outbound,       \* the chunks this RPC wrote to the stream, in order
    sendQueue,      \* the keys of results still to be sent, in map order
    srvI,           \* the loop counter i of the Send in progress
    status,         \* the grpc::Status the RPC returned
    rpcCount,       \* the RPCs handled so far
    escaped,        \* the exception that left the handler, NoExc when none did
    srvCancelled,   \* context->IsCancelled() of the RPC in progress
    failedWrites,   \* the stream->Write calls of this RPC that returned false
    hooks,      \* what the discipline's hooks do in the RPC in progress
    streamRequest,  \* the request of the last SetStreamOptions RPC
    written,        \* the metadata entries a Get...Definitions RPC wrote
    setupOk,        \* a Setup RPC has returned OK on this discipline
    \* SpecClient: an ExplicitClient or ImplicitClient and its compute call
    cliService,     \* "explicit" (ExplicitClient) or "implicit" (ImplicitClient)
    cliVarMeta,     \* DisciplineClient::var_meta_ (GetVariableMetaAll)
    cliPartialsMeta,\* DisciplineClient::partials_meta_ (GetPartialsMetaConst)
    cliStreamOpts,  \* DisciplineClient::stream_options_ (num_double)
    call,           \* the compute call in progress, "none" when idle
    callVars,       \* the Variables map the caller passed
    cliPc,          \* "idle", "sending", "reading", "done"
    metaIdx,        \* the position of the loop over the variable metadata
    cliSent,        \* the chunks the call wrote to the stream, in order
    cliResult,      \* the map the call assembles and returns
    cliWritten,     \* the (key, index) elements received chunks have written
    cliReads,       \* the chunks stream->Read has delivered in this call
    cliStatus,      \* what stream->Finish() returned
    cliOutcome,     \* "none", "returned" or "threw"
    cliExc,         \* the exception the call raised
    callCount,      \* the calls made so far
    rpc_timeout_,   \* DisciplineClient::rpc_timeout_, in ms
    deadline,       \* the deadline the context of the call in progress carries
    \* SpecDeclare: a discipline declaring its variables and partials
    discipline,     \* "explicit" (Discipline) or "implicit" (ImplicitDiscipline)
    declVarMeta,    \* Discipline::var_meta_ of that discipline
    declPartials,   \* Discipline::partials_meta_ of that discipline
    lastDecl,       \* the last declaration call: its arguments and what it threw
    declCount,      \* the DeclarePartials calls made so far
    \* SpecConstruct: the Variable constructors
    ctorArgs,       \* the constructor called last and its type and shape
    constructed,    \* the Variable it built
    \* SpecInstances: two disciplines in one hosting process
    insts,          \* per discipline: its members and its handler's locals
    process         \* "running", or "killed" by a signal

codecVars == << var, chunk_size, overload, context, cancelled, sendPc, sendI,
                num_chunks, stream, sendExc, recvData, recvCount, recvExc >>
assignVars == << target, before, lastChunk, lastExc, lastWrites, assignPc >>

serverVars == << service, implementation_, var_meta_, partials_meta_, stream_opts_, rpc,
                 srvPc, array, reads, inputs, outputs, results, callbackCalls,
                 outbound, sendQueue, srvI, status, rpcCount, escaped,
                 srvCancelled, failedWrites, hooks, streamRequest, written,
                 setupOk >>

clientVars == << cliService, cliVarMeta, cliPartialsMeta, cliStreamOpts, call,
                 callVars, cliPc, metaIdx, cliSent, cliResult, cliWritten,
                 cliReads, cliStatus, cliOutcome, cliExc, callCount,
                 rpc_timeout_, deadline >>

declareVars == << discipline, declVarMeta, declPartials, lastDecl, declCount >>

constructVars == << ctorArgs, constructed >>

instanceVars == << insts, process >>

\* what each specification leaves alone
notCodec == << assignVars, serverVars, clientVars, declareVars, constructVars,
                instanceVars >>
notAssign == << codecVars, serverVars, clientVars, declareVars, constructVars,
                instanceVars >>
notServer == << codecVars, assignVars, clientVars, declareVars, constructVars,
                instanceVars >>
notClient == << codecVars, assignVars, serverVars, declareVars, constructVars,
                instanceVars >>
notDeclare == << codecVars, assignVars, serverVars, clientVars, constructVars,
                instanceVars >>
notConstruct == << codecVars, assignVars, serverVars, clientVars, declareVars,
                   instanceVars >>
notInstances == << codecVars, assignVars, serverVars, clientVars, declareVars,
                   constructVars >>

vars == << codecVars, assignVars, serverVars, clientVars, declareVars,
           constructVars, instanceVars >>

Overloads == {"ClientReaderWriter", "ServerReaderWriterInterface",
              "ClientReaderWriterInterface"}

\* every buffer of length 0..n over Values
Buffers(n) == UNION {[1 .. k -> Values] : k \in 0 .. n}

NoChunk == [name |-> "", subname |-> "", start |-> 0, end |-> 0,
            type |-> "kInput", data |-> << >>]

CodecIdle ==
    /\ var = Variable("kInput", << 0 >>)
    /\ chunk_size = 1
    /\ overload = "ClientReaderWriter"
    /\ context = "null"
    /\ cancelled = FALSE
    /\ sendPc = "init"
    /\ sendI = 0
    /\ num_chunks = 0
    /\ stream = << >>
    /\ sendExc = NoExc
    /\ recvData = << >>
    /\ recvCount = 0
    /\ recvExc = NoExc

AssignIdle ==
    /\ target = << >>
    /\ before = << >>
    /\ lastChunk = NoChunk
    /\ lastExc = NoExc
    /\ lastWrites = {}
    /\ assignPc = "ready"

(***************************************************************************)
(* SpecCodec.  Variable::Send, one loop iteration per step, for each of the  *)
(* three overloads; the receiver applies AssignChunk to a zero-initialised   *)
(* buffer of the same shape, in the order the chunks were written.           *)
(***************************************************************************)
InitCodecVars ==
    /\ \E d \in Buffers(MaxLen) :
          /\ var = [type |-> "kInput", shape |-> << Len(d) >>, data |-> d]
          /\ recvData = Zeros(Len(d))
    /\ chunk_size \in 1 .. MaxChunk
    /\ overload \in Overloads
    /\ context \in {"null", "live"}
    /\ overload # "ServerReaderWriterInterface" => context = "null"
    /\ cancelled = FALSE
    /\ sendPc = "init"
    /\ sendI = 0
    /\ num_chunks = 0
    /\ stream = << >>
    /\ sendExc = NoExc
    /\ recvCount = 0
    /\ recvExc = NoExc

\* mutant: the raw client-stream overload rounds the chunk count up
NumChunksOfRawCeil(ov, n, csize) ==
    IF ov = "ClientReaderWriter" THEN NumChunksCeil(n, csize) ELSE NumChunks(n, csize)

\* the chunk count each overload of Send computes: the three bodies hold the
\* same two statements
NumChunksOf(ov, n, csize) ==
    CASE ov = "ClientReaderWriter" -> NumChunks(n, csize)
      [] ov = "ServerReaderWriterInterface" -> NumChunks(n, csize)
      [] ov = "ClientReaderWriterInterface" -> NumChunks(n, csize)

\* size_t n = Size(); size_t num_chunks = n / chunk_size; if (...) num_chunks = 1;
SendBegin ==
    /\ sendPc = "init"
    /\ num_chunks' = NumChunksOf(overload, Len(var.data), chunk_size)
    /\ sendI' = 0
    /\ sendPc' = "loop"
    /\ UNCHANGED << var, chunk_size, overload, context, cancelled, stream,
                    sendExc, recvData, recvCount, recvExc >>
    /\ UNCHANGED notCodec

\* the client cancels the call: context->IsCancelled() turns true
Cancel ==
    /\ context = "live"
    /\ sendPc \in {"init", "loop"}
    /\ ~cancelled
    /\ cancelled' = TRUE
    /\ UNCHANGED << var, chunk_size, overload, context, sendPc, sendI,
                    num_chunks, stream, sendExc, recvData, recvCount, recvExc >>
    /\ UNCHANGED notCodec

\* if (context != nullptr && context->IsCancelled()) throw std::runtime_error
SendCancelled ==
    /\ sendPc = "loop"
    /\ sendI < num_chunks
    /\ overload = "ServerReaderWriterInterface"
    /\ context # "null" /\ cancelled
    /\ sendPc' = "threw"
    /\ sendExc' = "runtime_error: cancelled"
    /\ UNCHANGED << var, chunk_size, overload, context, cancelled, sendI,
                    num_chunks, stream, recvData, recvCount, recvExc >>
    /\ UNCHANGED notCodec

\* the cancellation check of the loop body passes (or the overload has none)
PastCancelCheck ==
    ~(overload = "ServerReaderWriterInterface" /\ context # "null" /\ cancelled)

\* one iteration whose CreateChunk succeeds and whose stream->Write returns true
SendWrite ==
    /\ sendPc = "loop"
    /\ sendI < num_chunks
    /\ PastCancelCheck
    /\ LET c == SendChunk(var, "x", "", sendI, chunk_size)
       IN  /\ c.exc = NoExc
           /\ stream' = Append(stream, c.chunk)
    /\ sendI' = sendI + 1
    /\ UNCHANGED << var, chunk_size, overload, context, cancelled, sendPc,
                    num_chunks, sendExc, recvData, recvCount, recvExc >>
    /\ UNCHANGED notCodec

\* one iteration whose stream->Write returns false: throw std::runtime_error
SendWriteFails ==
    /\ sendPc = "loop"
    /\ sendI < num_chunks
    /\ PastCancelCheck
    /\ SendChunk(var, "x", "", sendI, chunk_size).exc = NoExc
    /\ sendPc' = "threw"
    /\ sendExc' = "runtime_error: write failed"
    /\ UNCHANGED << var, chunk_size, overload, context, cancelled, sendI,
                    num_chunks, stream, recvData, recvCount, recvExc >>
    /\ UNCHANGED notCodec

\* one iteration whose CreateChunk throws: the exception leaves Send
SendCreateThrows ==
    /\ sendPc = "loop"
    /\ sendI < num_chunks
    /\ PastCancelCheck
    /\ LET c == SendChunk(var, "x", "", sendI, chunk_size)
       IN  /\ c.exc # NoExc
           /\ sendExc' = c.exc
    /\ sendPc' = "threw"
    /\ UNCHANGED << var, chunk_size, overload, context, cancelled, sendI,
                    num_chunks, stream, recvData, recvCount, recvExc >>
    /\ UNCHANGED notCodec

\* the loop ends: Send returns
SendReturn ==
    /\ sendPc = "loop"
    /\ sendI >= num_chunks
    /\ sendPc' = "returned"
    /\ UNCHANGED << var, chunk_size, overload, context, cancelled, sendI,
                    num_chunks, stream, sendExc, recvData, recvCount, recvExc >>
    /\ UNCHANGED notCodec

\* the receiver reads the next chunk and applies AssignChunk to its buffer
Receive ==
    /\ recvCount < Len(stream)
    /\ recvExc = NoExc
    /\ LET r == AssignChunk(recvData, stream[recvCount + 1])
       IN  /\ recvData' = r.data
           /\ recvExc' = r.exc
    /\ recvCount' = recvCount + 1
    /\ UNCHANGED << var, chunk_size, overload, context, cancelled, sendPc,
                    sendI, num_chunks, stream, sendExc >>
    /\ UNCHANGED notCodec

NextCodec ==
    \/ SendBegin
    \/ Cancel
    \/ SendCancelled
    \/ SendWrite
    \/ SendWriteFails
    \/ SendCreateThrows
    \/ SendReturn
    \/ Receive

(***************************************************************************)
(* SpecAssign.  One AssignChunk call on a Variable whose buffer holds any    *)
(* values, the chunk's fields arbitrary.                                     *)
(***************************************************************************)
InitAssignVars ==
    /\ target \in Buffers(MaxBuf)
    /\ before = target
    /\ lastChunk = NoChunk
    /\ lastExc = NoExc
    /\ lastWrites = {}
    /\ assignPc = "ready"

AssignAny ==
    \E s \in -1 .. MaxBuf, e \in -1 .. MaxBuf, d \in Buffers(MaxBuf) :
        LET chunk == [name |-> "x", subname |-> "", start |-> s, end |-> e,
                      type |-> "kInput", data |-> d]
            r == AssignChunk(target, chunk)
        IN  /\ assignPc = "ready"
            /\ assignPc' = "called"
            /\ before' = target
            /\ lastChunk' = chunk
            /\ target' = r.data
            /\ lastExc' = r.exc
            /\ lastWrites' = r.writes
            /\ UNCHANGED notAssign

NextAssign == AssignAny


(***************************************************************************)
(* Metadata and maps.                                                        *)
(***************************************************************************)
\* the names of the model, in the key order of std::map<std::string, ...>
AllNames == << "f", "x", "zz" >>

RECURSIVE ShapesOf(_, _, _)
\* the dims the loops of ComputePartialShape push back for `name`
ShapesOf(meta, name, types) ==
    IF meta = << >> THEN << >>
    ELSE (IF Head(meta).name = name /\ Head(meta).type \in types
          THEN Head(meta).shape ELSE << >>) \o ShapesOf(Tail(meta), name, types)

\* found_f / found_x
FoundIn(meta, name, types) ==
    \E k \in 1 .. Len(meta) : meta[k].name = name /\ meta[k].type \in types

\* mutant: an Output is never eligible as x
XTypesInputOnly(allow_output_as_x) == {"kInput"}

\* the roles an entry named x may have to be eligible as the `with respect
\* to' variable
XTypes(allow_output_as_x) ==
    IF allow_output_as_x THEN {"kInput", "kOutput"} ELSE {"kInput"}

\* mutant: the input dimensions come first in the combined shape
ComputePartialShapeInputFirst(meta, f, x, allow_output_as_x) ==
    LET xtypes == XTypes(allow_output_as_x)
        shape_f == ShapesOf(meta, f, {"kOutput"})
        shape_x == ShapesOf(meta, x, xtypes)
    IN  IF ~FoundIn(meta, f, {"kOutput"}) \/ ~FoundIn(meta, x, xtypes)
        THEN [exc |-> "runtime_error", shape |-> << >>]
        ELSE [exc |-> NoExc,
              shape |-> IF shape_f = << 1 >> /\ shape_x = << 1 >> THEN << 1 >>
                        ELSE IF shape_f = << 1 >> THEN shape_x
                        ELSE IF shape_x = << 1 >> THEN shape_f
                        ELSE shape_x \o shape_f]

\* Discipline::ComputePartialShape
ComputePartialShape(meta, f, x, allow_output_as_x) ==
    LET xtypes == XTypes(allow_output_as_x)
        shape_f == ShapesOf(meta, f, {"kOutput"})
        shape_x == ShapesOf(meta, x, xtypes)
    IN  IF ~FoundIn(meta, f, {"kOutput"}) \/ ~FoundIn(meta, x, xtypes)
        THEN [exc |-> "runtime_error", shape |-> << >>]
        ELSE [exc |-> NoExc,
              shape |-> IF /\ Len(shape_f) = 1 /\ shape_f[1] = 1
                           /\ Len(shape_x) = 1 /\ shape_x[1] = 1
                        THEN << 1 >>
                        ELSE IF Len(shape_f) = 1 /\ shape_f[1] = 1 THEN shape_x
                        ELSE IF Len(shape_x) = 1 /\ shape_x[1] = 1 THEN shape_f
                        ELSE shape_f \o shape_x]

\* mutant: the entry is appended even when the shape inference throws
DeclarePartialsAlwaysAppends(pmeta, meta, f, x, allow_output_as_x) ==
    Append(pmeta, [name |-> f, subname |-> x,
                   shape |-> ComputePartialShape(meta, f, x, allow_output_as_x).shape])

\* Discipline::DeclarePartials / ImplicitDiscipline::DeclarePartials: the
\* partials metadata afterwards (unchanged when the shape inference throws)
DeclarePartials(pmeta, meta, f, x, allow_output_as_x) ==
    LET r == ComputePartialShape(meta, f, x, allow_output_as_x)
    IN  IF r.exc # NoExc THEN pmeta
        ELSE Append(pmeta, [name |-> f, subname |-> x, shape |-> r.shape])

\* mutant: an absent entry is created large enough for any chunk
MapGetSized(m, k) ==
    IF k \in DOMAIN m THEN m[k] ELSE Variable("kOutput", << MaxIdx + MaxCliIdx + 1 >>)

\* std::map::operator[]: the entry, default-constructed when absent
MapGet(m, k) == IF k \in DOMAIN m THEN m[k] ELSE DefaultVariable

\* m[k] = v
MapPut(m, k, v) == [j \in DOMAIN m \cup {k} |-> IF j = k THEN v ELSE m[j]]

EmptyMap == << >>

\* mutant: the map is kept from the previous RPC, its buffers still holding
\* what that RPC left in them
PreallocVarsReused(meta, types) ==
    LET names == {meta[k].name : k \in {j \in 1 .. Len(meta) : meta[j].type \in types}}
    IN  [nm \in names |->
            LET last == meta[CHOOSE k \in 1 .. Len(meta) :
                               /\ meta[k].name = nm /\ meta[k].type \in types
                               /\ \A j \in (k + 1) .. Len(meta) :
                                     ~(meta[j].name = nm /\ meta[j].type \in types)]
            IN  [type |-> last.type, shape |-> last.shape,
                 data |-> [k \in 1 .. Product(last.shape) |-> rpcCount]]]

RECURSIVE PreallocVars(_, _)
\* for (var : var_meta()) if (var.type() == type) map[var.name()] = Variable(var);
PreallocVars(meta, types) ==
    IF meta = << >> THEN EmptyMap
    ELSE LET rest == PreallocVars(SubSeq(meta, 1, Len(meta) - 1), types)
             last == meta[Len(meta)]
         IN  IF last.type \in types
             THEN MapPut(rest, last.name, Variable(last.type, last.shape))
             ELSE rest

RECURSIVE PreallocPartials(_, _)
\* for (par : partials_meta()) partials[{name, subname}] = Variable(type, shape);
PreallocPartials(pmeta, type) ==
    IF pmeta = << >> THEN EmptyMap
    ELSE LET rest == PreallocPartials(SubSeq(pmeta, 1, Len(pmeta) - 1), type)
             last == pmeta[Len(pmeta)]
         IN  MapPut(rest, << last.name, last.subname >>, Variable(type, last.shape))

\* var_lookup[var.name()] = &var over var_meta(): the last entry of a name wins
LookupIndex(meta, name) ==
    IF \E k \in 1 .. Len(meta) : meta[k].name = name
    THEN CHOOSE k \in 1 .. Len(meta) :
            /\ meta[k].name = name
            /\ \A j \in (k + 1) .. Len(meta) : meta[j].name # name
    ELSE 0

\* the keys of a Variables map in iteration order
SortedNames(S) == SelectSeq(AllNames, LAMBDA n : n \in S)

RECURSIVE PairsFrom(_, _)
PairsFrom(names, S) ==
    IF names = << >> THEN << >>
    ELSE LET n == Head(names)
         IN  SelectSeq([k \in 1 .. Len(AllNames) |-> << n, AllNames[k] >>],
                       LAMBDA pr : pr \in S)
             \o PairsFrom(Tail(names), S)

\* the keys of a Partials map (pairs) in iteration order
SortedPairs(S) == PairsFrom(AllNames, S)

(***************************************************************************)
(* SpecServer.  The five compute RPCs of ExplicitServer and ImplicitServer:  *)
(* one step for the entry checks and preallocation, one per stream->Read,    *)
(* one for the user callback, one per iteration of each Send loop.           *)
(***************************************************************************)
ExplicitKinds == {"ComputeFunction", "ComputeGradient"}
ImplicitKinds == {"ComputeResiduals", "SolveResiduals", "ComputeResidualGradients"}
Kinds == ExplicitKinds \cup ImplicitKinds

\* mutant: every read loop takes Output-role chunks into `outputs`
ReadsOutputsAlways(kind) == TRUE

\* the read loops that take Output-role chunks into `outputs`
ReadsOutputs(kind) == kind \in {"ComputeResiduals", "ComputeResidualGradients"}

\* mutant: no read loop compares the chunk's type with the metadata's
ChecksTypeNever(kind) == FALSE

\* the read loops that compare array.type() with var->type()
ChecksType(kind) == kind \in {"ComputeResiduals", "ComputeResidualGradients"}

\* the RPCs that send back a Partials map
ReturnsPartials(kind) == kind \in {"ComputeGradient", "ComputeResidualGradients"}

Status(code, msg) == [code |-> code, msg |-> msg]

NoStatus == Status("none", "")

\* mutant: the send loop skips the first entry of the result map
ResultKeysSkipsFirst(kind, m) ==
    LET keys == IF ReturnsPartials(kind) THEN SortedPairs(DOMAIN m)
                ELSE SortedNames(DOMAIN m)
    IN  IF keys = << >> THEN keys ELSE Tail(keys)

\* the keys of a result map, in the order the send loop visits them
ResultKeys(kind, m) ==
    IF ReturnsPartials(kind) THEN SortedPairs(DOMAIN m) ELSE SortedNames(DOMAIN m)

\* map[name].AssignChunk(array) inside try/catch: the map afterwards, and
\* the exception caught
AssignInto(m, c) ==
    LET v == MapGet(m, c.name)
        r == AssignChunk(v.data, c)
    IN  [exc |-> r.exc, map |-> MapPut(m, c.name, [v EXCEPT !.data = r.data])]

\* mutant: a chunk of an unknown variable is skipped and the loop goes on
ProcessChunkDropsUnknown(kind, meta, ins, outs, c) ==
    LET idx == LookupIndex(meta, c.name)
        no == [status |-> NoStatus, inputs |-> ins, outputs |-> outs]
    IN  IF idx = 0 THEN no
        ELSE IF ChecksType(kind) /\ c.type # meta[idx].type
            THEN [no EXCEPT !.status = Status("INVALID_ARGUMENT", "Type mismatch")]
        ELSE IF meta[idx].type = "kInput"
            THEN LET a == AssignInto(ins, c)
                 IN  IF a.exc # NoExc
                     THEN [no EXCEPT !.status =
                               Status("INVALID_ARGUMENT", "Failed to assign chunk"),
                               !.inputs = a.map]
                     ELSE [no EXCEPT !.inputs = a.map]
        ELSE IF ReadsOutputs(kind) /\ meta[idx].type = "kOutput"
            THEN LET a == AssignInto(outs, c)
                 IN  IF a.exc # NoExc
                     THEN [no EXCEPT !.status =
                               Status("INVALID_ARGUMENT", "Failed to assign chunk"),
                               !.outputs = a.map]
                     ELSE [no EXCEPT !.outputs = a.map]
        ELSE [no EXCEPT !.status = Status("INVALID_ARGUMENT", "Invalid variable type")]

\* the body of the read loop for the chunk just read: the status returned
\* (NoStatus when the loop goes on) and the maps afterwards
ProcessChunk(kind, meta, ins, outs, c) ==
    LET idx == LookupIndex(meta, c.name)
        no == [status |-> NoStatus, inputs |-> ins, outputs |-> outs]
    IN  IF idx = 0
            THEN [no EXCEPT !.status = Status("INVALID_ARGUMENT", "Variable not found")]
        ELSE IF ChecksType(kind) /\ c.type # meta[idx].type
            THEN [no EXCEPT !.status = Status("INVALID_ARGUMENT", "Type mismatch")]
        ELSE IF meta[idx].type = "kInput"
            THEN LET a == AssignInto(ins, c)
                 IN  IF a.exc # NoExc
                     THEN [no EXCEPT !.status =
                               Status("INVALID_ARGUMENT", "Failed to assign chunk"),
                               !.inputs = a.map]
                     ELSE [no EXCEPT !.inputs = a.map]
        ELSE IF ReadsOutputs(kind) /\ meta[idx].type = "kOutput"
            THEN LET a == AssignInto(outs, c)
                 IN  IF a.exc # NoExc
                     THEN [no EXCEPT !.status =
                               Status("INVALID_ARGUMENT", "Failed to assign chunk"),
                               !.outputs = a.map]
                     ELSE [no EXCEPT !.outputs = a.map]
        ELSE [no EXCEPT !.status = Status("INVALID_ARGUMENT", "Invalid variable type")]

\* the chunks a peer may put on the inbound stream as the n-th message: any
\* name, either role tag, any range up to MaxIdx, a payload of the range's
\* length or one element longer, every element carrying the ordinal n
InboundChunks(n) ==
    { [name |-> nm, subname |-> "", start |-> s, end |-> e, type |-> t,
       data |-> [k \in 1 .. (e - s + 1 + extra) |-> n]] :
        nm \in {AllNames[k] : k \in 1 .. Len(AllNames)},
        t \in {"kInput", "kOutput"},
        s \in 0 .. MaxIdx, e \in 0 .. MaxIdx, extra \in {0, 1} }

\* the disciplines served: variables declared by Setup, partials by SetupPartials
ServerConfigs ==
    { [service |-> sv,
       var_meta |-> << [name |-> "x", type |-> "kInput", shape |-> sx],
                       [name |-> "f", type |-> "kOutput", shape |-> sf] >>] :
        sv \in {"explicit", "implicit"},
        sx \in {<< 2 >>}, sf \in {<< 1 >>, << 3 >>, << 0 >>} }

\* SetupPartials of the disciplines served: df/dx, and for an implicit
\* discipline df/df as well
ConfigPartials(cfg) ==
    LET allow == cfg.service = "implicit"
        p1 == DeclarePartials(<< >>, cfg.var_meta, "f", "x", allow)
    IN  IF allow THEN DeclarePartials(p1, cfg.var_meta, "f", "f", allow) ELSE p1

\* what a user hook or callback may throw: an exception derived from
\* std::exception, or an object of any other type
Throwables == {"std::exception", "other"}

\* no Setup or SetOptions is in progress
NoHook == [vars |-> << >>, setupThrows |-> NoExc,
           partials |-> << >>, partialsThrows |-> NoExc, optionsThrows |-> NoExc,
           optionCalls |-> << >>]

\* Discipline::Discipline: stream_opts_.set_num_double(1000)
DefaultChunk == 1000

\* no SetStreamOptions RPC was handled yet
NoRequest == [set |-> FALSE, num_double |-> 0]

\* the num_double values a SetStreamOptions request may carry
StreamRequests == 0 .. MaxSrvChunk

ServerLocalsIdle ==
    /\ rpc = "none"
    /\ srvPc = "idle"
    /\ array = NoChunk
    /\ reads = 0
    /\ inputs = EmptyMap
    /\ outputs = EmptyMap
    /\ results = EmptyMap
    /\ callbackCalls = 0
    /\ outbound = << >>
    /\ sendQueue = << >>
    /\ srvI = 0
    /\ status = NoStatus
    /\ escaped = NoExc
    /\ srvCancelled = FALSE
    /\ failedWrites = 0
    /\ hooks = NoHook
    /\ written = << >>

ServerIdle ==
    /\ service = "explicit"
    /\ implementation_ = "null"
    /\ var_meta_ = << >>
    /\ partials_meta_ = << >>
    /\ stream_opts_ = DefaultChunk
    /\ streamRequest = NoRequest
    /\ setupOk = FALSE
    /\ rpcCount = 0
    /\ ServerLocalsIdle

\* a server linked to one of the disciplines served, after its Setup
InitServerVars ==
    /\ \E cfg \in ServerConfigs :
          /\ service = cfg.service
          /\ var_meta_ = cfg.var_meta
          /\ partials_meta_ = ConfigPartials(cfg)
    /\ implementation_ = "linked"
    /\ stream_opts_ = DefaultChunk
    /\ streamRequest = NoRequest
    /\ setupOk = TRUE
    /\ rpcCount = 0
    /\ ServerLocalsIdle

\* a server linked to a discipline that was just constructed: no Setup RPC
\* was handled, the metadata lists are empty
InitFreshVars ==
    /\ service \in {"explicit", "implicit"}
    /\ var_meta_ = << >>
    /\ partials_meta_ = << >>
    /\ implementation_ = "linked"
    /\ stream_opts_ = DefaultChunk
    /\ streamRequest = NoRequest
    /\ setupOk = FALSE
    /\ rpcCount = 0
    /\ ServerLocalsIdle

\* ExplicitServer::LinkPointers / ImplicitServer::LinkPointers
LinkPointers ==
    /\ srvPc = "idle"
    /\ implementation_ = "null"
    /\ implementation_' = "linked"
    /\ UNCHANGED << service, var_meta_, partials_meta_, stream_opts_, rpc, srvPc,
                    array, reads, inputs, outputs, results, callbackCalls,
                    outbound, sendQueue, srvI, status, rpcCount >>
    /\ UNCHANGED << escaped, srvCancelled, failedWrites, hooks >>
    /\ UNCHANGED << streamRequest, written, setupOk >>
    /\ UNCHANGED notServer

\* ExplicitServer::UnlinkPointers / ImplicitServer::UnlinkPointers
UnlinkPointers ==
    /\ srvPc = "idle"
    /\ implementation_ = "linked"
    /\ implementation_' = "null"
    /\ UNCHANGED << service, var_meta_, partials_meta_, stream_opts_, rpc, srvPc,
                    array, reads, inputs, outputs, results, callbackCalls,
                    outbound, sendQueue, srvI, status, rpcCount >>
    /\ UNCHANGED << escaped, srvCancelled, failedWrites, hooks >>
    /\ UNCHANGED << streamRequest, written, setupOk >>
    /\ UNCHANGED notServer

\* mutant: Setup leaves the metadata of earlier invocations in place
ClearMetaKeeps(meta) == meta

\* var_meta().clear() / partials_meta().clear()
ClearMeta(meta) == << >>

\* what the Setup and SetupPartials hooks of a discipline may do: declare the
\* variables of one of the disciplines served, then declare partials, each
\* hook possibly throwing after its declarations
SetupHooks(sv) ==
    { [vars |-> cfg.var_meta, setupThrows |-> t1, partials |-> ps,
       partialsThrows |-> t2, optionsThrows |-> NoExc, optionCalls |-> << >>] :
        cfg \in {c \in ServerConfigs : c.service = sv},
        t1 \in {NoExc} \cup Throwables,
        ps \in {<< >>, << << "f", "x" >> >>, << << "f", "x" >>, << "f", "f" >> >>},
        t2 \in {NoExc} \cup Throwables }

RECURSIVE RunDeclarePartials(_, _, _, _)
\* the DeclarePartials calls of a SetupPartials hook, in order, up to the
\* first that throws
RunDeclarePartials(pmeta, meta, decls, allow) ==
    IF decls = << >> THEN [exc |-> NoExc, partials |-> pmeta]
    ELSE LET d == Head(decls)
         IN  IF ComputePartialShape(meta, d[1], d[2], allow).exc # NoExc
             THEN [exc |-> "std::exception", partials |-> pmeta]
             ELSE RunDeclarePartials(DeclarePartials(pmeta, meta, d[1], d[2], allow),
                                     meta, Tail(decls), allow)

\* DisciplineServer::Setup: the metadata is cleared, the Setup hook and then
\* the SetupPartials hook run, each inside try/catch with catch (...)
SetupRpc ==
    /\ srvPc = "idle"
    /\ rpcCount < MaxRpcs
    /\ \E h \in SetupHooks(service) :
          LET vm == ClearMeta(var_meta_) \o h.vars
              pm == ClearMeta(partials_meta_)
              sp == RunDeclarePartials(pm, vm, h.partials, service = "implicit")
          IN  /\ hooks' = h
              /\ var_meta_' = vm
              /\ IF h.setupThrows # NoExc
                 THEN /\ partials_meta_' = pm
                      /\ status' = Status("INTERNAL", "error during Setup call")
                 ELSE /\ partials_meta_' = sp.partials
                      /\ status' = IF sp.exc # NoExc \/ h.partialsThrows # NoExc
                                   THEN Status("INTERNAL",
                                               "error during SetupPartials call")
                                   ELSE Status("OK", "")
    /\ setupOk' = (setupOk \/ status'.code = "OK")
    /\ rpc' = "Setup"
    /\ srvPc' = "done"
    /\ rpcCount' = rpcCount + 1
    /\ UNCHANGED << service, implementation_, stream_opts_, array, reads, inputs,
                    outputs, results, callbackCalls, outbound, sendQueue, srvI,
                    escaped, srvCancelled, failedWrites >>
    /\ UNCHANGED << streamRequest, written >>
    /\ UNCHANGED notServer

\* DisciplineServer::SetStreamOptions: the request is stored as it is and OK
\* is returned
SetStreamOptionsRpc ==
    /\ srvPc = "idle"
    /\ \E n \in StreamRequests :
          /\ stream_opts_' = n
          /\ streamRequest' = [set |-> TRUE, num_double |-> n]
    /\ UNCHANGED << service, implementation_, var_meta_, partials_meta_, rpc,
                    srvPc, array, reads, inputs, outputs, results,
                    callbackCalls, outbound, sendQueue, srvI, status, rpcCount,
                    escaped, srvCancelled, failedWrites, hooks, written,
                    setupOk >>
    /\ UNCHANGED notServer

\* mutant: writing the variable definitions drains the discipline's list
QueryRpcDrains ==
    /\ srvPc = "idle"
    /\ rpcCount < MaxRpcs
    /\ rpc' = "GetVariableDefinitions"
    /\ written' = var_meta_
    /\ var_meta_' = << >>
    /\ status' = Status("OK", "")
    /\ srvPc' = "done"
    /\ rpcCount' = rpcCount + 1
    /\ UNCHANGED << service, implementation_, partials_meta_,
                    stream_opts_, array, reads, inputs, outputs, results,
                    callbackCalls, outbound, sendQueue, srvI, escaped,
                    srvCancelled, failedWrites, hooks, streamRequest, setupOk >>
    /\ UNCHANGED notServer

\* the RPCs that only read the discipline
QueryRpcs == {"GetInfo", "GetAvailableOptions", "GetVariableDefinitions",
              "GetPartialDefinitions"}

\* DisciplineServer::GetInfo, GetAvailableOptions, GetVariableDefinitions and
\* GetPartialDefinitions: the discipline is read, the definitions are written
\* one entry at a time unless the writer is null, and OK is returned
QueryRpc ==
    /\ srvPc = "idle"
    /\ rpcCount < MaxRpcs
    /\ \E name \in QueryRpcs, writerNull \in BOOLEAN :
          /\ rpc' = name
          /\ written' = IF writerNull THEN << >>
                        ELSE IF name = "GetVariableDefinitions" THEN var_meta_
                        ELSE IF name = "GetPartialDefinitions" THEN partials_meta_
                        ELSE << >>
    /\ status' = Status("OK", "")
    /\ srvPc' = "done"
    /\ rpcCount' = rpcCount + 1
    /\ UNCHANGED << service, implementation_, var_meta_, partials_meta_,
                    stream_opts_, array, reads, inputs, outputs, results,
                    callbackCalls, outbound, sendQueue, srvI, escaped,
                    srvCancelled, failedWrites, hooks, streamRequest, setupOk >>
    /\ UNCHANGED notServer

\* mutant: SetOptions returns without calling Configure
SetOptionsSkipsConfigure(t, at) == << "SetOptions" >>

\* the hooks DisciplineServer::SetOptions causes to be entered, in order:
\* the discipline's SetOptions with the request's options, which calls
\* Configure last unless it threw (exception t) before that call
SetOptionsCalls(t, at) ==
    IF t # NoExc /\ at = "SetOptions"
    THEN << "SetOptions" >>
    ELSE << "SetOptions", "Configure" >>

\* DisciplineServer::SetOptions: discipline_->SetOptions(options), which calls
\* the Configure hook, with no try/catch around it
SetOptionsRpc ==
    /\ srvPc = "idle"
    /\ rpcCount < MaxRpcs
    /\ \E t \in {NoExc} \cup Throwables, at \in {"SetOptions", "Configure"} :
          /\ t = NoExc => at = "Configure"
          /\ hooks' = [NoHook EXCEPT !.optionsThrows = t,
                                     !.optionCalls = SetOptionsCalls(t, at)]
          /\ IF t = NoExc
             THEN /\ status' = Status("OK", "")
                  /\ UNCHANGED escaped
             ELSE /\ escaped' = t
                  /\ UNCHANGED status
    /\ rpc' = "SetOptions"
    /\ srvPc' = "done"
    /\ rpcCount' = rpcCount + 1
    /\ UNCHANGED << service, implementation_, var_meta_, partials_meta_,
                    stream_opts_, array, reads, inputs, outputs, results,
                    callbackCalls, outbound, sendQueue, srvI, srvCancelled,
                    failedWrites >>
    /\ UNCHANGED << streamRequest, written, setupOk >>
    /\ UNCHANGED notServer

\* the handler's entry: the null checks, then the preallocation from metadata
BeginRpc ==
    /\ srvPc = "idle"
    /\ rpcCount < MaxRpcs
    /\ \E kind \in Kinds, streamNull \in BOOLEAN :
          /\ kind \in (IF service = "explicit" THEN ExplicitKinds ELSE ImplicitKinds)
          /\ rpc' = kind
          /\ IF implementation_ = "null"
             THEN /\ status' = Status("FAILED_PRECONDITION", "not linked")
                  /\ srvPc' = "done"
                  /\ UNCHANGED << inputs, outputs, results >>
             ELSE IF streamNull
             THEN /\ status' = Status("INVALID_ARGUMENT", "Stream is null")
                  /\ srvPc' = "done"
                  /\ UNCHANGED << inputs, outputs, results >>
             ELSE /\ status' = NoStatus
                  /\ srvPc' = "reading"
                  /\ inputs' = PreallocVars(var_meta_, {"kInput"})
                  /\ outputs' = IF ReadsOutputs(kind)
                                THEN PreallocVars(var_meta_, {"kOutput"})
                                ELSE EmptyMap
                  /\ results' = IF kind = "ComputeResiduals"
                                THEN PreallocVars(var_meta_, {"kOutput"})
                                ELSE EmptyMap
    /\ rpcCount' = rpcCount + 1
    /\ UNCHANGED << service, implementation_, var_meta_, partials_meta_,
                    stream_opts_, array, reads, callbackCalls, outbound,
                    sendQueue, srvI >>
    /\ UNCHANGED << escaped, srvCancelled, failedWrites, hooks >>
    /\ UNCHANGED << streamRequest, written, setupOk >>
    /\ UNCHANGED notServer

\* stream->Read(&array) returns true: the loop body handles the chunk
ReadChunk ==
    /\ srvPc = "reading"
    /\ reads < MaxReads
    /\ \E c \in InboundChunks(reads + 1) :
          LET r == ProcessChunk(rpc, var_meta_, inputs, outputs, c)
          IN  /\ array' = c
              /\ inputs' = r.inputs
              /\ outputs' = r.outputs
              /\ status' = r.status
              /\ srvPc' = IF r.status = NoStatus THEN "reading" ELSE "done"
    /\ reads' = reads + 1
    /\ UNCHANGED << service, implementation_, var_meta_, partials_meta_,
                    stream_opts_, rpc, results, callbackCalls, outbound,
                    sendQueue, srvI, rpcCount >>
    /\ UNCHANGED << escaped, srvCancelled, failedWrites, hooks >>
    /\ UNCHANGED << streamRequest, written, setupOk >>
    /\ UNCHANGED notServer

\* mutant: the handler writes a chunk before it invokes the user callback
ReadEndWritesFirst ==
    /\ srvPc = "reading"
    /\ srvPc' = "callback"
    /\ callbackCalls' = callbackCalls + 1
    /\ outbound' = << NoChunk >>
    /\ UNCHANGED << service, implementation_, var_meta_, partials_meta_,
                    stream_opts_, rpc, array, reads, inputs, outputs, results,
                    sendQueue, srvI, status, rpcCount, escaped, srvCancelled,
                    failedWrites, hooks >>
    /\ UNCHANGED << streamRequest, written, setupOk >>
    /\ UNCHANGED notServer

\* stream->Read(&array) returns false: the result map is preallocated and the
\* user callback is invoked
ReadEnd ==
    /\ srvPc = "reading"
    /\ srvPc' = "callback"
    /\ callbackCalls' = callbackCalls + 1
    /\ IF rpc \in {"ComputeFunction", "SolveResiduals"}
       THEN /\ outputs' = PreallocVars(var_meta_, {"kOutput"})
            /\ results' = outputs'
       ELSE IF ReturnsPartials(rpc)
       THEN /\ results' = PreallocPartials(partials_meta_, "kOutput")
            /\ UNCHANGED outputs
       ELSE UNCHANGED << outputs, results >>
    /\ UNCHANGED << service, implementation_, var_meta_, partials_meta_,
                    stream_opts_, rpc, array, reads, inputs, outbound,
                    sendQueue, srvI, status, rpcCount >>
    /\ UNCHANGED << escaped, srvCancelled, failedWrites, hooks >>
    /\ UNCHANGED << streamRequest, written, setupOk >>
    /\ UNCHANGED notServer

\* what the user callback leaves in a result buffer: every element set to v
Fill(m, v) == [k \in DOMAIN m |-> [m[k] EXCEPT !.data = [j \in DOMAIN m[k].data |-> v]]]

\* the user callback returns, having written the result map
CallbackReturns ==
    /\ srvPc = "callback"
    /\ \E v \in Values :
          /\ results' = Fill(results, v)
          /\ outputs' = IF rpc \in {"ComputeFunction", "SolveResiduals"}
                        THEN results' ELSE outputs
    /\ sendQueue' = ResultKeys(rpc, results)
    /\ srvI' = 0
    /\ srvPc' = "sending"
    /\ UNCHANGED << service, implementation_, var_meta_, partials_meta_,
                    stream_opts_, rpc, array, reads, inputs, callbackCalls,
                    outbound, status, rpcCount >>
    /\ UNCHANGED << escaped, srvCancelled, failedWrites, hooks >>
    /\ UNCHANGED << streamRequest, written, setupOk >>
    /\ UNCHANGED notServer

\* catch (const std::exception &e) around the user callback
CaughtByHandler(e) == e = "std::exception"

\* the user callback throws: a std::exception is caught and INTERNAL is
\* returned, anything else leaves the handler
CallbackThrows ==
    /\ srvPc = "callback"
    /\ \E e \in Throwables :
          IF CaughtByHandler(e)
          THEN /\ status' = Status("INTERNAL", "Failed to compute")
               /\ UNCHANGED escaped
          ELSE /\ escaped' = e
               /\ UNCHANGED status
    /\ srvPc' = "done"
    /\ UNCHANGED << service, implementation_, var_meta_, partials_meta_,
                    stream_opts_, rpc, array, reads, inputs, outputs, results,
                    callbackCalls, outbound, sendQueue, srvI, rpcCount >>
    /\ UNCHANGED << srvCancelled, failedWrites, hooks >>
    /\ UNCHANGED << streamRequest, written, setupOk >>
    /\ UNCHANGED notServer

\* the chunk the Send in progress creates in iteration srvI
SrvChunk ==
    LET key == Head(sendQueue)
    IN  IF ReturnsPartials(rpc)
        THEN SendChunk(results[key], key[1], key[2], srvI, stream_opts_)
        ELSE SendChunk(results[key], key, "", srvI, stream_opts_)

\* the Send in progress has iterations left
SrvInLoop ==
    /\ srvPc = "sending"
    /\ sendQueue # << >>
    /\ srvI < NumChunks(Len(results[Head(sendQueue)].data), stream_opts_)

\* the ServerContext the handlers hand to Variable::Send: they call
\* Send(name, subname, stream, chunk_size), so Send's context is null
SendContext == "nullptr"

\* Send's test before each chunk: context != nullptr && context->IsCancelled()
CancelSeen == SendContext # "nullptr" /\ srvCancelled

\* the peer cancels the call while the callback runs or the results are sent:
\* context->IsCancelled() is true from now on
SrvCancel ==
    /\ srvPc \in {"callback", "sending"}
    /\ ~srvCancelled
    /\ srvCancelled' = TRUE
    /\ UNCHANGED << service, implementation_, var_meta_, partials_meta_,
                    stream_opts_, rpc, srvPc, array, reads, inputs, outputs,
                    results, callbackCalls, outbound, sendQueue, srvI, status,
                    rpcCount, escaped, failedWrites, hooks >>
    /\ UNCHANGED << streamRequest, written, setupOk >>
    /\ UNCHANGED notServer

\* mutant: a failed write is skipped and the Send loop goes on
SrvWriteFailsSwallowed ==
    /\ srvPc = "sending"
    /\ sendQueue # << >>
    /\ srvI < NumChunks(Len(results[Head(sendQueue)].data), stream_opts_)
    /\ failedWrites' = failedWrites + 1
    /\ srvI' = srvI + 1
    /\ UNCHANGED << service, implementation_, var_meta_, partials_meta_,
                    stream_opts_, rpc, srvPc, array, reads, inputs, outputs,
                    results, callbackCalls, outbound, sendQueue, status,
                    rpcCount, escaped, srvCancelled, hooks >>
    /\ UNCHANGED << streamRequest, written, setupOk >>
    /\ UNCHANGED notServer

\* Send divides by a chunk size of 0 and the division traps: the process is
\* killed inside the handler, which returns no status
SrvDivideTraps ==
    /\ srvPc = "sending"
    /\ sendQueue # << >>
    /\ srvI = 0
    /\ stream_opts_ = 0
    /\ escaped' = "SIGFPE"
    /\ srvPc' = "done"
    /\ UNCHANGED << service, implementation_, var_meta_, partials_meta_,
                    stream_opts_, rpc, array, reads, inputs, outputs, results,
                    callbackCalls, outbound, sendQueue, srvI, status, rpcCount >>
    /\ UNCHANGED << srvCancelled, failedWrites, hooks, streamRequest, written,
                    setupOk >>
    /\ UNCHANGED notServer

\* one Send iteration: the chunk is created and stream->Write returns true
SrvWrite ==
    /\ SrvInLoop
    /\ ~CancelSeen
    /\ SrvChunk.exc = NoExc
    /\ outbound' = Append(outbound, SrvChunk.chunk)
    /\ srvI' = srvI + 1
    /\ UNCHANGED << service, implementation_, var_meta_, partials_meta_,
                    stream_opts_, rpc, srvPc, array, reads, inputs, outputs,
                    results, callbackCalls, sendQueue, status, rpcCount >>
    /\ UNCHANGED << escaped, srvCancelled, failedWrites, hooks >>
    /\ UNCHANGED << streamRequest, written, setupOk >>
    /\ UNCHANGED notServer

\* one Send iteration: stream->Write returns false, Send throws, the handler
\* catches and returns INTERNAL
SrvWriteFails ==
    /\ SrvInLoop
    /\ ~CancelSeen
    /\ SrvChunk.exc = NoExc
    /\ failedWrites' = failedWrites + 1
    /\ status' = Status("INTERNAL", "Failed to send")
    /\ srvPc' = "done"
    /\ UNCHANGED << service, implementation_, var_meta_, partials_meta_,
                    stream_opts_, rpc, array, reads, inputs, outputs, results,
                    callbackCalls, outbound, sendQueue, srvI, rpcCount >>
    /\ UNCHANGED << escaped, srvCancelled, hooks >>
    /\ UNCHANGED << streamRequest, written, setupOk >>
    /\ UNCHANGED notServer

\* one Send iteration: CreateChunk throws, the handler catches and returns
\* INTERNAL
SrvCreateThrows ==
    /\ SrvInLoop
    /\ SrvChunk.exc # NoExc
    /\ status' = Status("INTERNAL", "Failed to send")
    /\ srvPc' = "done"
    /\ UNCHANGED << service, implementation_, var_meta_, partials_meta_,
                    stream_opts_, rpc, array, reads, inputs, outputs, results,
                    callbackCalls, outbound, sendQueue, srvI, rpcCount >>
    /\ UNCHANGED << escaped, srvCancelled, failedWrites, hooks >>
    /\ UNCHANGED << streamRequest, written, setupOk >>
    /\ UNCHANGED notServer

\* the Send in progress returns: the loop over the result map moves on
SrvNextVariable ==
    /\ srvPc = "sending"
    /\ sendQueue # << >>
    /\ ~SrvInLoop
    /\ sendQueue' = Tail(sendQueue)
    /\ srvI' = 0
    /\ UNCHANGED << service, implementation_, var_meta_, partials_meta_,
                    stream_opts_, rpc, srvPc, array, reads, inputs, outputs,
                    results, callbackCalls, outbound, status, rpcCount >>
    /\ UNCHANGED << escaped, srvCancelled, failedWrites, hooks >>
    /\ UNCHANGED << streamRequest, written, setupOk >>
    /\ UNCHANGED notServer

\* every result was sent: return grpc::Status::OK
SrvFinish ==
    /\ srvPc = "sending"
    /\ sendQueue = << >>
    /\ status' = Status("OK", "")
    /\ srvPc' = "done"
    /\ UNCHANGED << service, implementation_, var_meta_, partials_meta_,
                    stream_opts_, rpc, array, reads, inputs, outputs, results,
                    callbackCalls, outbound, sendQueue, srvI, rpcCount >>
    /\ UNCHANGED << escaped, srvCancelled, failedWrites, hooks >>
    /\ UNCHANGED << streamRequest, written, setupOk >>
    /\ UNCHANGED notServer

\* the handler has returned: its locals are gone, the server is idle again
SrvReturn ==
    /\ srvPc = "done"
    /\ rpc' = "none"
    /\ srvPc' = "idle"
    /\ array' = NoChunk
    /\ reads' = 0
    /\ inputs' = EmptyMap
    /\ outputs' = EmptyMap
    /\ results' = EmptyMap
    /\ callbackCalls' = 0
    /\ outbound' = << >>
    /\ sendQueue' = << >>
    /\ srvI' = 0
    /\ status' = NoStatus
    /\ escaped' = NoExc
    /\ srvCancelled' = FALSE
    /\ failedWrites' = 0
    /\ hooks' = NoHook
    /\ written' = << >>
    /\ UNCHANGED << service, implementation_, var_meta_, partials_meta_,
                    stream_opts_, rpcCount >>
    /\ UNCHANGED << streamRequest, setupOk >>
    /\ UNCHANGED notServer

NextServer ==
    \/ LinkPointers
    \/ UnlinkPointers
    \/ SetupRpc
    \/ SetOptionsRpc
    \/ SetStreamOptionsRpc
    \/ QueryRpc
    \/ BeginRpc
    \/ ReadChunk
    \/ ReadEnd
    \/ CallbackReturns
    \/ CallbackThrows
    \/ SrvCancel
    \/ SrvDivideTraps
    \/ SrvWrite
    \/ SrvWriteFails
    \/ SrvCreateThrows
    \/ SrvNextVariable
    \/ SrvFinish
    \/ SrvReturn

(***************************************************************************)
(* SpecClient.  The compute calls of ExplicitClient and ImplicitClient: one  *)
(* step per entry of the loop over the variable metadata (a whole Send),     *)
(* one for WritesDone, one per stream->Read, one for Finish.                 *)
(***************************************************************************)
NoException == [what |-> "none", code |-> "", msg |-> "", timeout |-> << >>]

\* std::chrono::milliseconds rpc_timeout_{60000}
DefaultTimeout == 60000

\* a timeout a caller configures with SetRPCTimeout
CustomTimeout == 5000

Timeouts == {DefaultTimeout, CustomTimeout}

\* a ClientContext on which set_deadline was not called
NoDeadline == [set |-> FALSE, after |-> 0]

\* context.set_deadline(std::chrono::system_clock::now() + rpc_timeout_)
SetDeadline(timeout) == [set |-> TRUE, after |-> timeout]

\* the chunks of a whole Send, while every write succeeds: what was written
\* before CreateChunk threw (if it did), and that exception
SendAll(v, name, subname, csize) ==
    LET num == NumChunks(Len(v.data), csize)
        all == [i \in 1 .. num |-> SendChunk(v, name, subname, i - 1, csize)]
        bad == {i \in 1 .. num : all[i].exc # NoExc}
        stop == IF bad = {} THEN num + 1
                ELSE CHOOSE i \in bad : \A j \in bad : i <= j
    IN  [chunks |-> [i \in 1 .. (stop - 1) |-> all[i].chunk],
         exc |-> IF bad = {} THEN NoExc ELSE all[stop].exc]

\* mutant: every call sends an Input entry only if the caller supplied it
UsesAtNever(kind) == FALSE

\* mutant: every call fetches the caller's variable with vars.at(name)
UsesAtAlways(kind) == TRUE

\* the calls that fetch the caller's variable with vars.at(name), which throws
\* std::out_of_range for a name the caller did not supply
UsesAt(kind) == kind \in {"ComputeResiduals", "ComputeResidualGradients"}

\* the calls that send the caller's Output-role variables as well
SendsOutputs(kind) == kind \in {"ComputeResiduals", "ComputeResidualGradients"}

\* the subname the call passes to Send
SendSubname(kind, name) == IF kind = "ComputeGradient" THEN name ELSE ""

\* mutant: every call converts a non-OK status into an exception
IgnoresStatusNever(kind) == FALSE

\* mutant: no call converts a non-OK status into an exception
IgnoresStatusAlways(kind) == TRUE

\* the calls that drop the status Finish() returns
IgnoresStatus(kind) == kind \in {"ComputeFunction", "ComputeGradient"}

\* what the metadata loop does with one entry: whether it sends, what it
\* sends, the exception it throws, and the result map afterwards
MetaEntryStep(kind, entry, supplied, csize, result) ==
    LET name == entry.name
        sends == \/ entry.type = "kInput"
                 \/ (entry.type = "kOutput" /\ SendsOutputs(kind))
        missing == name \notin DOMAIN supplied
        prealloc == IF entry.type = "kOutput" /\ ~ReturnsPartials(kind)
                    THEN MapPut(result, name, Variable(entry.type, entry.shape))
                    ELSE result
    IN  IF sends /\ missing /\ UsesAt(kind)
            THEN [chunks |-> << >>, exc |-> "out_of_range", result |-> result]
        ELSE IF sends /\ ~missing
            THEN LET r == SendAll(supplied[name], name, SendSubname(kind, name),
                                  csize)
                 IN  [chunks |-> r.chunks, exc |-> r.exc,
                      result |-> IF r.exc = NoExc THEN prealloc ELSE result]
        ELSE [chunks |-> << >>, exc |-> NoExc, result |-> prealloc]

\* the key under which a received chunk is assigned
ResultKey(kind, c) == IF ReturnsPartials(kind) THEN << c.name, c.subname >> ELSE c.name

\* the chunks a server may send back as the n-th message
ResponseChunks(kind, n) ==
    { [name |-> nm, subname |-> sub, start |-> s, end |-> e, type |-> "kOutput",
       data |-> [k \in 1 .. (e - s + 1 + extra) |-> n]] :
        nm \in {"f", "zz"},
        sub \in (IF ReturnsPartials(kind) THEN {"x", "f"} ELSE {""}),
        s \in 0 .. MaxCliIdx, e \in 0 .. MaxCliIdx, extra \in {0, 1} }

\* the status codes Finish() may return
StatusCodes == {"OK", "INVALID_ARGUMENT", "INTERNAL", "DEADLINE_EXCEEDED",
                "UNAVAILABLE"}

\* a buffer of the variable's declared shape, every element 1
Supplied(entry) ==
    [Variable(entry.type, entry.shape) EXCEPT
        !.data = [k \in 1 .. Product(entry.shape) |-> 1]]

\* the maps a caller may pass: any of the declared variables, with or
\* without an entry "zz" that the metadata does not declare
CallerMaps(meta) ==
    { [n \in S |-> IF n = "zz" THEN Supplied([type |-> "kInput", shape |-> << 1 >>])
                   ELSE Supplied(meta[LookupIndex(meta, n)])] :
        S \in SUBSET ({meta[k].name : k \in 1 .. Len(meta)} \cup {"zz"}) }

ClientLocalsIdle ==
    /\ call = "none"
    /\ callVars = EmptyMap
    /\ cliPc = "idle"
    /\ metaIdx = 0
    /\ cliSent = << >>
    /\ cliResult = EmptyMap
    /\ cliWritten = {}
    /\ cliReads = 0
    /\ cliStatus = NoStatus
    /\ cliOutcome = "none"
    /\ cliExc = NoException
    /\ deadline = NoDeadline

ClientIdle ==
    /\ cliService = "explicit"
    /\ cliVarMeta = << >>
    /\ cliPartialsMeta = << >>
    /\ cliStreamOpts = 1
    /\ callCount = 0
    /\ rpc_timeout_ = DefaultTimeout
    /\ ClientLocalsIdle

\* a client that has run GetVariableDefinitions and GetPartialDefinitions
\* against one of the disciplines served
InitClientVars ==
    /\ \E cfg \in ServerConfigs :
          /\ cliService = cfg.service
          /\ cliVarMeta = cfg.var_meta
          /\ cliPartialsMeta = ConfigPartials(cfg)
    /\ cliStreamOpts \in 1 .. MaxCliChunk
    /\ callCount = 0
    /\ rpc_timeout_ = DefaultTimeout
    /\ ClientLocalsIdle

\* the calls that set a deadline on their context: all but the two of
\* ExplicitClient
SetsDeadline(kind) == kind \notin {"ComputeFunction", "ComputeGradient"}

\* the calls of DisciplineClient
UnaryCalls == {"GetInfo", "SendStreamOptions", "SendOptions", "Setup",
               "GetVariableDefinitions", "GetPartialDefinitions"}

\* the exception a DisciplineClient call builds from a non-OK status: only
\* GetInfo puts the code in the text
UnaryException(name, st, timeout) ==
    IF st.code = "DEADLINE_EXCEEDED"
    THEN [what |-> "runtime_error: RPC timeout", code |-> "", msg |-> st.msg,
          timeout |-> << timeout >>]
    ELSE [what |-> "runtime_error: RPC failed",
          code |-> IF name = "GetInfo" THEN st.code ELSE "",
          msg |-> st.msg, timeout |-> << >>]

\* the metadata lists a definitions stream may deliver before it finishes
DeliveredVars(sv, ok) ==
    {c.var_meta : c \in {d \in ServerConfigs : d.service = sv}}
        \cup (IF ok THEN {} ELSE {<< >>})

DeliveredPartials(sv, ok) ==
    {ConfigPartials(c) : c \in {d \in ServerConfigs : d.service = sv}}
        \cup (IF ok THEN {} ELSE {<< >>})

\* SetRPCTimeout(timeout)
SetRPCTimeout ==
    /\ cliPc = "idle"
    /\ \E t \in Timeouts : rpc_timeout_' = t /\ t # rpc_timeout_
    /\ UNCHANGED << cliService, cliVarMeta, cliPartialsMeta, cliStreamOpts, call,
                    callVars, cliPc, metaIdx, cliSent, cliResult, cliWritten,
                    cliReads, cliStatus, cliOutcome, cliExc, callCount, deadline >>
    /\ UNCHANGED notClient

\* one call of DisciplineClient: the deadline is set, the RPC is made, the
\* definitions calls replace the metadata by what the stream delivered, and a
\* non-OK status is thrown
UnaryCall ==
    /\ cliPc = "idle"
    /\ callCount < MaxCalls
    /\ \E name \in UnaryCalls, code \in StatusCodes :
          LET st == Status(code, IF code = "OK" THEN "" ELSE "server message")
          IN  /\ call' = name
              /\ cliStatus' = st
              /\ IF name = "GetVariableDefinitions"
                 THEN /\ cliVarMeta' \in DeliveredVars(cliService, code = "OK")
                      /\ UNCHANGED cliPartialsMeta
                 ELSE IF name = "GetPartialDefinitions"
                 THEN /\ cliPartialsMeta' \in DeliveredPartials(cliService, code = "OK")
                      /\ UNCHANGED cliVarMeta
                 ELSE UNCHANGED << cliVarMeta, cliPartialsMeta >>
              /\ IF code = "OK"
                 THEN /\ cliOutcome' = "returned"
                      /\ UNCHANGED cliExc
                 ELSE /\ cliOutcome' = "threw"
                      /\ cliExc' = UnaryException(name, st, rpc_timeout_)
    /\ deadline' = SetDeadline(rpc_timeout_)
    /\ cliPc' = "done"
    /\ callCount' = callCount + 1
    /\ UNCHANGED << cliService, cliStreamOpts, callVars, metaIdx, cliSent,
                    cliResult, cliWritten, cliReads, rpc_timeout_ >>
    /\ UNCHANGED notClient

\* the caller invokes a compute call: the context and the stream are created
CallBegin ==
    /\ cliPc = "idle"
    /\ callCount < MaxCalls
    /\ \E kind \in Kinds, m \in CallerMaps(cliVarMeta) :
          /\ kind \in (IF cliService = "explicit" THEN ExplicitKinds ELSE ImplicitKinds)
          /\ call' = kind
          /\ callVars' = m
          /\ deadline' = IF SetsDeadline(kind) THEN SetDeadline(rpc_timeout_)
                          ELSE NoDeadline
    /\ cliPc' = "sending"
    /\ metaIdx' = 1
    /\ callCount' = callCount + 1
    /\ UNCHANGED << cliService, cliVarMeta, cliPartialsMeta, cliStreamOpts,
                    cliSent, cliResult, cliWritten, cliReads, cliStatus,
                    cliOutcome, cliExc >>
    /\ UNCHANGED << rpc_timeout_ >>
    /\ UNCHANGED notClient

\* one iteration of the loop over the variable metadata, every write of its
\* Send succeeding; an exception of at() or CreateChunk leaves the call
SendEntry ==
    /\ cliPc = "sending"
    /\ metaIdx <= Len(cliVarMeta)
    /\ LET r == MetaEntryStep(call, cliVarMeta[metaIdx], callVars, cliStreamOpts,
                              cliResult)
       IN  /\ cliSent' = cliSent \o r.chunks
           /\ cliResult' = r.result
           /\ IF r.exc = NoExc
              THEN /\ metaIdx' = metaIdx + 1
                   /\ UNCHANGED << cliPc, cliOutcome, cliExc >>
              ELSE /\ cliPc' = "done"
                   /\ cliOutcome' = "threw"
                   /\ cliExc' = [NoException EXCEPT !.what = r.exc]
                   /\ UNCHANGED metaIdx
    /\ UNCHANGED << cliService, cliVarMeta, cliPartialsMeta, cliStreamOpts, call,
                    callVars, cliWritten, cliReads, cliStatus, callCount >>
    /\ UNCHANGED << rpc_timeout_, deadline >>
    /\ UNCHANGED notClient

\* one iteration of the loop over the variable metadata in which a
\* stream->Write of its Send returns false: Send throws std::runtime_error
SendEntryWriteFails ==
    /\ cliPc = "sending"
    /\ metaIdx <= Len(cliVarMeta)
    /\ LET r == MetaEntryStep(call, cliVarMeta[metaIdx], callVars, cliStreamOpts,
                              cliResult)
       IN  \E k \in 1 .. Len(r.chunks) :
              cliSent' = cliSent \o SubSeq(r.chunks, 1, k - 1)
    /\ cliPc' = "done"
    /\ cliOutcome' = "threw"
    /\ cliExc' = [NoException EXCEPT !.what = "runtime_error",
                                   !.msg = "Failed to write"]
    /\ UNCHANGED << cliService, cliVarMeta, cliPartialsMeta, cliStreamOpts, call,
                    callVars, metaIdx, cliResult, cliWritten, cliReads, cliStatus,
                    callCount >>
    /\ UNCHANGED << rpc_timeout_, deadline >>
    /\ UNCHANGED notClient

\* stream->WritesDone(); the gradient calls then preallocate the partials
WritesDone ==
    /\ cliPc = "sending"
    /\ metaIdx > Len(cliVarMeta)
    /\ cliResult' = IF ReturnsPartials(call)
                    THEN PreallocPartials(cliPartialsMeta, "kPartial")
                    ELSE cliResult
    /\ cliPc' = "reading"
    /\ UNCHANGED << cliService, cliVarMeta, cliPartialsMeta, cliStreamOpts, call,
                    callVars, metaIdx, cliSent, cliWritten, cliReads, cliStatus,
                    cliOutcome, cliExc, callCount >>
    /\ UNCHANGED << rpc_timeout_, deadline >>
    /\ UNCHANGED notClient

\* stream->Read(&result) returns true: map[key].AssignChunk(result), whose
\* exception leaves the call
ReadResponse ==
    /\ cliPc = "reading"
    /\ cliReads < MaxCliReads
    /\ \E c \in ResponseChunks(call, cliReads + 1) :
          LET key == ResultKey(call, c)
              v == MapGet(cliResult, key)
              r == AssignChunk(v.data, c)
          IN  /\ cliResult' = MapPut(cliResult, key, [v EXCEPT !.data = r.data])
              /\ cliWritten' = cliWritten \cup {<< key, i >> : i \in r.writes}
              /\ IF r.exc = NoExc
                 THEN UNCHANGED << cliPc, cliOutcome, cliExc >>
                 ELSE /\ cliPc' = "done"
                      /\ cliOutcome' = "threw"
                      /\ cliExc' = [NoException EXCEPT !.what = r.exc]
    /\ cliReads' = cliReads + 1
    /\ UNCHANGED << cliService, cliVarMeta, cliPartialsMeta, cliStreamOpts, call,
                    callVars, metaIdx, cliSent, cliStatus, callCount >>
    /\ UNCHANGED << rpc_timeout_, deadline >>
    /\ UNCHANGED notClient

\* the exception a call builds from a non-OK status: "<call> RPC failed:
\* [code] message", or for DEADLINE_EXCEEDED "RPC timeout after <n>ms:
\* message", a text without the code
StatusException(st, timeout) ==
    IF st.code = "DEADLINE_EXCEEDED"
    THEN [what |-> "runtime_error: RPC timeout", code |-> "", msg |-> st.msg,
          timeout |-> << timeout >>]
    ELSE [what |-> "runtime_error: RPC failed", code |-> st.code, msg |-> st.msg,
          timeout |-> << >>]

\* stream->Read returns false; status = stream->Finish(); the call returns the
\* map or throws
Finish ==
    /\ cliPc = "reading"
    /\ \E code \in StatusCodes :
          LET st == Status(code, IF code = "OK" THEN "" ELSE "server message")
          IN  /\ cliStatus' = st
              /\ IF code # "OK" /\ ~IgnoresStatus(call)
                 THEN /\ cliOutcome' = "threw"
                      /\ cliExc' = StatusException(st, rpc_timeout_)
                 ELSE /\ cliOutcome' = "returned"
                      /\ UNCHANGED cliExc
    /\ cliPc' = "done"
    /\ UNCHANGED << cliService, cliVarMeta, cliPartialsMeta, cliStreamOpts, call,
                    callVars, metaIdx, cliSent, cliResult, cliWritten, cliReads,
                    callCount >>
    /\ UNCHANGED << rpc_timeout_, deadline >>
    /\ UNCHANGED notClient

\* the call is over: the client is idle again
CallEnd ==
    /\ cliPc = "done"
    /\ call' = "none"
    /\ callVars' = EmptyMap
    /\ cliPc' = "idle"
    /\ metaIdx' = 0
    /\ cliSent' = << >>
    /\ cliResult' = EmptyMap
    /\ cliWritten' = {}
    /\ cliReads' = 0
    /\ cliStatus' = NoStatus
    /\ cliOutcome' = "none"
    /\ cliExc' = NoException
    /\ deadline' = NoDeadline
    /\ UNCHANGED << cliService, cliVarMeta, cliPartialsMeta, cliStreamOpts,
                    callCount, rpc_timeout_ >>
    /\ UNCHANGED notClient

NextClient ==
    \/ SetRPCTimeout
    \/ UnaryCall
    \/ CallBegin
    \/ SendEntry
    \/ SendEntryWriteFails
    \/ WritesDone
    \/ ReadResponse
    \/ Finish
    \/ CallEnd

(***************************************************************************)
(* A discipline declaring its variables and partials: AddInput, AddOutput    *)
(* and DeclarePartials on Discipline and ImplicitDiscipline.                 *)
(***************************************************************************)
DeclNames == {"f", "x"}

DeclShapes == {<< 1 >>, << 3 >>, << 1, 2 >>}

\* no declaration call was made yet
NoDecl == [op |-> "none", f |-> "", x |-> "", exc |-> NoExc, shape |-> << >>,
           before |-> << >>]

DeclareIdle ==
    /\ discipline = "explicit"
    /\ declVarMeta = << >>
    /\ declPartials = << >>
    /\ lastDecl = NoDecl
    /\ declCount = 0

InitDeclareVars ==
    /\ discipline \in {"explicit", "implicit"}
    /\ declVarMeta = << >>
    /\ declPartials = << >>
    /\ lastDecl = NoDecl
    /\ declCount = 0

\* the allow_output_as_x argument each class passes to ComputePartialShape
AllowOutputAsX(class) == class = "implicit"

\* Discipline::AddInput
AddInput ==
    /\ Len(declVarMeta) < MaxMeta
    /\ \E name \in DeclNames, shape \in DeclShapes :
          declVarMeta' = Append(declVarMeta,
                                [name |-> name, type |-> "kInput", shape |-> shape])
    /\ lastDecl' = [NoDecl EXCEPT !.op = "AddInput"]
    /\ UNCHANGED << discipline, declPartials, declCount >>
    /\ UNCHANGED notDeclare

\* Discipline::AddOutput
AddOutput ==
    /\ Len(declVarMeta) < MaxMeta
    /\ \E name \in DeclNames, shape \in DeclShapes :
          declVarMeta' = Append(declVarMeta,
                                [name |-> name, type |-> "kOutput", shape |-> shape])
    /\ lastDecl' = [NoDecl EXCEPT !.op = "AddOutput"]
    /\ UNCHANGED << discipline, declPartials, declCount >>
    /\ UNCHANGED notDeclare

\* Discipline::DeclarePartials(f, x) / ImplicitDiscipline::DeclarePartials(f, x)
CallDeclarePartials ==
    /\ declCount < MaxDecls
    /\ \E f \in DeclNames, x \in DeclNames :
          LET allow == AllowOutputAsX(discipline)
              r == ComputePartialShape(declVarMeta, f, x, allow)
          IN  /\ lastDecl' = [op |-> "DeclarePartials", f |-> f, x |-> x,
                              exc |-> r.exc, shape |-> r.shape,
                              before |-> declPartials]
              /\ declPartials' = DeclarePartials(declPartials, declVarMeta, f, x, allow)
    /\ declCount' = declCount + 1
    /\ UNCHANGED << discipline, declVarMeta >>
    /\ UNCHANGED notDeclare

NextDeclare ==
    \/ AddInput
    \/ AddOutput
    \/ CallDeclarePartials

(***************************************************************************)
(* The Variable constructors.                                                *)
(***************************************************************************)
\* every shape of at most MaxRank dimensions, each of 0 .. MaxDim
CtorShapes == UNION {[1 .. k -> 0 .. MaxDim] : k \in 0 .. MaxRank}

\* no constructor was called yet
NoCtor == [ctor |-> "none", type |-> "kInput", shape |-> << >>]

ConstructIdle ==
    /\ ctorArgs = NoCtor
    /\ constructed = DefaultVariable

InitConstructVars == ConstructIdle

\* Variable::Variable(const VariableType &, const std::vector<size_t> &)
ConstructFromShape ==
    /\ ctorArgs = NoCtor
    /\ \E type \in {"kInput", "kOutput"}, shape \in CtorShapes :
          /\ ctorArgs' = [ctor |-> "shape", type |-> type, shape |-> shape]
          /\ constructed' = Variable(type, shape)
    /\ UNCHANGED notConstruct

\* Variable::Variable(const VariableMetaData &)
ConstructFromMeta ==
    /\ ctorArgs = NoCtor
    /\ \E type \in {"kInput", "kOutput"}, shape \in CtorShapes :
          /\ ctorArgs' = [ctor |-> "VariableMetaData", type |-> type, shape |-> shape]
          /\ constructed' = Variable(type, shape)
    /\ UNCHANGED notConstruct

\* Variable::Variable(const PartialsMetaData &)
ConstructFromPartialsMeta ==
    /\ ctorArgs = NoCtor
    /\ \E shape \in CtorShapes :
          /\ ctorArgs' = [ctor |-> "PartialsMetaData", type |-> "kPartial",
                          shape |-> shape]
          /\ constructed' = Variable("kPartial", shape)
    /\ UNCHANGED notConstruct

NextConstruct ==
    \/ ConstructFromShape
    \/ ConstructFromMeta
    \/ ConstructFromPartialsMeta

(***************************************************************************)
(* Specifications.                                                           *)
(***************************************************************************)
(***************************************************************************)
(* SpecInstances.  Two disciplines, each behind its own server objects, in    *)
(* one hosting process; worker threads handle one RPC per discipline at a    *)
(* time and interleave freely.  Each discipline is a record of its members   *)
(* and of the locals of the ComputeFunction handler running on it.           *)
(***************************************************************************)
Instances == {"a", "b"}

\* a discipline after its Setup, no RPC in progress
IdleInstance(meta) ==
    [var_meta_ |-> meta, stream_opts_ |-> DefaultChunk, pc |-> "idle",
     reads |-> 0, inputs |-> EmptyMap, outputs |-> EmptyMap,
     outbound |-> << >>, status |-> NoStatus]

InstancesIdle ==
    /\ insts = [i \in Instances |-> IdleInstance(<< >>)]
    /\ process = "running"

InitInstancesVars ==
    /\ \E cfg \in {c \in ServerConfigs : c.service = "explicit"} :
          insts = [i \in Instances |-> IdleInstance(cfg.var_meta)]
    /\ process = "running"

\* the handler on discipline i writes the members and locals of discipline i
Store(ds, i, r) == [ds EXCEPT ![i] = r]

\* DisciplineServer::Setup on one discipline: the hooks declare the variables
SetupOf(r) ==
    IF r.pc # "idle" THEN {}
    ELSE {[r EXCEPT !.var_meta_ = ClearMeta(r.var_meta_) \o cfg.var_meta] :
             cfg \in {c \in ServerConfigs : c.service = "explicit"}}

\* DisciplineServer::SetStreamOptions on one discipline
SetStreamOptionsOf(r) ==
    IF r.pc # "idle" THEN {}
    ELSE {[r EXCEPT !.stream_opts_ = n] : n \in StreamRequests}

\* ComputeFunctionImpl starts: the inputs are preallocated
BeginOf(r) ==
    IF r.pc # "idle" THEN {}
    ELSE {[r EXCEPT !.pc = "reading",
                    !.inputs = PreallocVars(r.var_meta_, {"kInput"})]}

\* one stream->Read and the loop body
ReadOf(r) ==
    IF r.pc # "reading" \/ r.reads >= MaxInstReads THEN {}
    ELSE {LET p == ProcessChunk("ComputeFunction", r.var_meta_, r.inputs,
                                EmptyMap, c)
          IN  [r EXCEPT !.reads = r.reads + 1, !.inputs = p.inputs,
                        !.status = p.status,
                        !.pc = IF p.status = NoStatus THEN "reading" ELSE "done"] :
             c \in InboundChunks(r.reads + 1)}

\* the read loop ends, the outputs are preallocated and Compute fills them
CallbackOf(r) ==
    IF r.pc # "reading" THEN {}
    ELSE {[r EXCEPT !.pc = "sending",
                    !.outputs = Fill(PreallocVars(r.var_meta_, {"kOutput"}), v)] :
             v \in Values}

RECURSIVE SendMap(_, _, _)
\* the send loop over the outputs, every write succeeding: the chunks written
\* and the exception that ended it
SendMap(keys, outs, csize) ==
    IF keys = << >> THEN [chunks |-> << >>, exc |-> NoExc]
    ELSE LET one == SendAll(outs[Head(keys)], Head(keys), "", csize)
             rest == SendMap(Tail(keys), outs, csize)
         IN  IF one.exc # NoExc THEN one
             ELSE [chunks |-> one.chunks \o rest.chunks, exc |-> rest.exc]

\* the send loop runs to its end and the handler returns; with a chunk size
\* of 0 this is the build whose division by zero yields 0
SendOf(r) ==
    IF r.pc # "sending" THEN {}
    ELSE {LET sent == SendMap(ResultKeys("ComputeFunction", r.outputs),
                              r.outputs, r.stream_opts_)
          IN  [r EXCEPT !.pc = "done", !.outbound = sent.chunks,
                        !.status = IF sent.exc # NoExc
                                   THEN Status("INTERNAL", "Failed to send output")
                                   ELSE Status("OK", "")]}

\* the handler's locals are destroyed
ReturnOf(r) ==
    IF r.pc # "done" THEN {}
    ELSE {[r EXCEPT !.pc = "idle", !.reads = 0, !.inputs = EmptyMap,
                    !.outputs = EmptyMap, !.outbound = << >>,
                    !.status = NoStatus]}

\* what the death of the hosting process leaves of an RPC in progress
Killed(r) == IF r.pc = "idle" THEN r ELSE [r EXCEPT !.pc = "killed"]

InstSetup ==
    /\ process = "running"
    /\ \E i \in Instances : \E r \in SetupOf(insts[i]) : insts' = Store(insts, i, r)
    /\ UNCHANGED process
    /\ UNCHANGED notInstances

InstSetStreamOptions ==
    /\ process = "running"
    /\ \E i \in Instances : \E r \in SetStreamOptionsOf(insts[i]) :
          insts' = Store(insts, i, r)
    /\ UNCHANGED process
    /\ UNCHANGED notInstances

InstBegin ==
    /\ process = "running"
    /\ \E i \in Instances : \E r \in BeginOf(insts[i]) : insts' = Store(insts, i, r)
    /\ UNCHANGED process
    /\ UNCHANGED notInstances

InstRead ==
    /\ process = "running"
    /\ \E i \in Instances : \E r \in ReadOf(insts[i]) : insts' = Store(insts, i, r)
    /\ UNCHANGED process
    /\ UNCHANGED notInstances

InstCallback ==
    /\ process = "running"
    /\ \E i \in Instances : \E r \in CallbackOf(insts[i]) : insts' = Store(insts, i, r)
    /\ UNCHANGED process
    /\ UNCHANGED notInstances

InstSend ==
    /\ process = "running"
    /\ \E i \in Instances : \E r \in SendOf(insts[i]) : insts' = Store(insts, i, r)
    /\ UNCHANGED process
    /\ UNCHANGED notInstances

\* size_t num_chunks = n / chunk_size with chunk_size = 0, on a build whose
\* division traps: SIGFPE ends the hosting process, and with it every RPC in
\* progress on any discipline
InstDivideTraps ==
    /\ process = "running"
    /\ \E i \in Instances :
          /\ insts[i].pc = "sending"
          /\ insts[i].stream_opts_ = 0
          /\ insts[i].outputs # EmptyMap
    /\ insts' = [j \in Instances |-> Killed(insts[j])]
    /\ process' = "killed"
    /\ UNCHANGED notInstances

InstReturn ==
    /\ process = "running"
    /\ \E i \in Instances : \E r \in ReturnOf(insts[i]) : insts' = Store(insts, i, r)
    /\ UNCHANGED process
    /\ UNCHANGED notInstances

NextInstances ==
    \/ InstSetup
    \/ InstSetStreamOptions
    \/ InstBegin
    \/ InstRead
    \/ InstCallback
    \/ InstSend
    \/ InstDivideTraps
    \/ InstReturn

InitCodec ==
    InitCodecVars /\ AssignIdle /\ ServerIdle /\ ClientIdle /\ DeclareIdle /\ ConstructIdle
        /\ InstancesIdle

InitAssign ==
    InitAssignVars /\ CodecIdle /\ ServerIdle /\ ClientIdle /\ DeclareIdle /\ ConstructIdle
        /\ InstancesIdle

InitServer ==
    InitServerVars /\ CodecIdle /\ AssignIdle /\ ClientIdle /\ DeclareIdle /\ ConstructIdle
        /\ InstancesIdle

InitFresh ==
    InitFreshVars /\ CodecIdle /\ AssignIdle /\ ClientIdle /\ DeclareIdle /\ ConstructIdle
        /\ InstancesIdle

InitClient ==
    InitClientVars /\ CodecIdle /\ AssignIdle /\ ServerIdle /\ DeclareIdle /\ ConstructIdle
        /\ InstancesIdle

InitDeclare ==
    InitDeclareVars /\ CodecIdle /\ AssignIdle /\ ServerIdle /\ ClientIdle /\ ConstructIdle
        /\ InstancesIdle

InitConstruct ==
    InitConstructVars /\ CodecIdle /\ AssignIdle /\ ServerIdle /\ ClientIdle /\ DeclareIdle
        /\ InstancesIdle

InitInstances ==
    InitInstancesVars /\ CodecIdle /\ AssignIdle /\ ServerIdle /\ ClientIdle
        /\ DeclareIdle /\ ConstructIdle

SpecCodec == InitCodec /\ [][NextCodec]_vars

SpecAssign == InitAssign /\ [][NextAssign]_vars

SpecServer == InitServer /\ [][NextServer]_vars

\* the server from the construction of its discipline on
SpecFresh == InitFresh /\ [][NextServer]_vars

SpecClient == InitClient /\ [][NextClient]_vars

SpecDeclare == InitDeclare /\ [][NextDeclare]_vars

SpecConstruct == InitConstruct /\ [][NextConstruct]_vars

SpecInstances == InitInstances /\ [][NextInstances]_vars


(***************************************************************************)
(* The array codec: claims C1 to C6.                                         *)
(***************************************************************************)
Min(a, b) == IF a < b THEN a ELSE b

\* ceil(a / b) for b >= 1
CeilDiv(a, b) == (a + b - 1) \div b

\* Send ended on its own: not through a failed write, not through cancellation
SendEndedUndisturbed ==
    /\ sendPc \in {"returned", "threw"}
    /\ sendExc \notin {"runtime_error: write failed", "runtime_error: cancelled"}

\* C1: once Send has returned and the receiver has applied every chunk it
\* wrote, in order, to its zero-initialised buffer of the same length, the
\* receiver's buffer equals the sender's, element for element.
C1_RoundTrip ==
    (sendPc = "returned" /\ recvCount = Len(stream))
        => (recvExc = NoExc /\ recvData = var.data)

\* C2: a Send that no failed write and no cancellation cuts short writes
\* exactly max(1, ceil(L / C)) chunks.
C2_ChunkCount ==
    SendEndedUndisturbed
        => Len(stream) = (IF Len(var.data) = 0 THEN 1
                          ELSE CeilDiv(Len(var.data), chunk_size))

\* C3: sending a buffer of length 0 completes without error and writes
\* exactly one chunk, whose payload is empty.
C3_EmptySend ==
    (Len(var.data) = 0 /\ SendEndedUndisturbed)
        => /\ sendPc = "returned"
           /\ Len(stream) = 1
           /\ stream[1].data = << >>

\* C4: for a buffer of length L >= 1, the i-th chunk written (from 0) has
\* start = i*C and end = min((i+1)*C, L) - 1: the first starts at 0 and each
\* starts one past the end of the one before.
C4_ChunkRanges ==
    Len(var.data) >= 1 =>
        \A k \in 1 .. Len(stream) :
            /\ stream[k].start = (k - 1) * chunk_size
            /\ stream[k].end = Min(k * chunk_size, Len(var.data)) - 1
            /\ k > 1 => stream[k].start = stream[k - 1].end + 1

\* witness of C4: a Send that wrote several chunks and returned
C4_Witness ==
    /\ sendPc = "returned"
    /\ Len(stream) >= 2
    /\ stream[2].start = chunk_size

\* the five conditions of a well-formed chunk for a buffer of length L
ChunkWellFormed(chunk, L) ==
    /\ chunk.start >= 0
    /\ chunk.end >= 0
    /\ chunk.start <= chunk.end
    /\ chunk.end < L
    /\ Len(chunk.data) = chunk.end - chunk.start + 1

\* C5: AssignChunk succeeds exactly when the chunk satisfies all five
\* conditions for the buffer's length, and throws otherwise.
C5_AssignValidates ==
    assignPc = "called"
        => (lastExc = NoExc <=> ChunkWellFormed(lastChunk, Len(before)))

\* witness of C5: a chunk in range whose payload is too short is rejected
C5_Witness ==
    /\ assignPc = "called"
    /\ lastExc = "length_error"
    /\ lastChunk.start = 0
    /\ lastChunk.end = Len(before) - 1
    /\ Len(lastChunk.data) = Len(before) - 1

\* C6: a rejected chunk leaves the buffer as it was and writes no element,
\* and no call writes an index outside [0, L).
C6_RejectLeavesBuffer ==
    assignPc = "called"
        => /\ lastWrites \subseteq 0 .. (Len(before) - 1)
           /\ Len(target) = Len(before)
           /\ lastExc # NoExc => (target = before /\ lastWrites = {})

\* witness of C6: a chunk with a non-empty payload of other values is rejected
C6_Witness ==
    /\ assignPc = "called"
    /\ lastExc # NoExc
    /\ Len(before) >= 2
    /\ Len(lastChunk.data) >= 1
    /\ lastChunk.start = 0
    /\ lastChunk.data[1] # before[1]


(***************************************************************************)
(* The client's compute calls: claims C7 and C8.                             *)
(***************************************************************************)
\* the (key, index) elements of the buffers the metadata declares for the
\* result of a call: the Output variables, or the declared partials
DeclaredElements(kind) ==
    IF ReturnsPartials(kind)
    THEN UNION {{<< << cliPartialsMeta[k].name, cliPartialsMeta[k].subname >>, i >> :
                    i \in 0 .. (Product(cliPartialsMeta[k].shape) - 1)} :
                k \in 1 .. Len(cliPartialsMeta)}
    ELSE UNION {{<< cliVarMeta[k].name, i >> :
                    i \in 0 .. (Product(cliVarMeta[k].shape) - 1)} :
                k \in {j \in 1 .. Len(cliVarMeta) : cliVarMeta[j].type = "kOutput"}}

\* C7: a compute call that returns normally returns a result in which every
\* element of every declared output or partial buffer was written by a chunk
\* received during that call.
C7_CompleteOrError ==
    (call \in Kinds /\ cliOutcome = "returned")
        => DeclaredElements(call) \subseteq cliWritten

\* C8: a compute call whose stream finished with a status other than OK has
\* raised an error carrying the status code and message, and has not returned.
C8_NonOkRaises ==
    (/\ call \in Kinds
     /\ cliPc = "done"
     /\ cliStatus # NoStatus
     /\ cliStatus.code # "OK")
        => /\ cliOutcome = "threw"
           /\ cliExc.code = cliStatus.code
           /\ cliExc.msg = cliStatus.msg


(***************************************************************************)
(* The server's read loop: claims C9 and C10.                                *)
(***************************************************************************)
\* the names the discipline's variable metadata declares
MetaNames == {var_meta_[k].name : k \in 1 .. Len(var_meta_)}

\* the roles the discipline's variable metadata records for a name
MetaRoles(name) ==
    {var_meta_[k].type : k \in {j \in 1 .. Len(var_meta_) : var_meta_[j].name = name}}

\* some element of some buffer of the map holds the value n
HoldsValue(m, n) ==
    \E k \in DOMAIN m : \E j \in DOMAIN m[k].data : m[k].data[j] = n

\* the handler has read a chunk, and `array` is the last one it read
LastChunkRead == rpc # "none" /\ reads > 0

\* C9: in each of the five compute RPCs, once the handler has read a chunk
\* whose name the variable metadata does not declare, the RPC has ended with
\* INVALID_ARGUMENT, the user callback was not invoked and nothing was written.
C9_UnknownVariable ==
    (LastChunkRead /\ array.name \notin MetaNames)
        => /\ srvPc = "done"
           /\ status.code = "INVALID_ARGUMENT"
           /\ callbackCalls = 0
           /\ outbound = << >>

\* witness of C9: the second chunk of a ComputeFunction names no declared variable
C9_Witness ==
    /\ rpc = "ComputeFunction"
    /\ reads = 2
    /\ array.name = "zz"
    /\ srvPc = "done"

\* C10: in ComputeResiduals and ComputeResidualGradients, once the handler has
\* read a chunk whose role tag differs from the metadata role of its name, the
\* RPC has ended with INVALID_ARGUMENT, no buffer holds an element of that
\* chunk, and the user callback was not invoked.
C10_RoleMismatch ==
    (/\ LastChunkRead
     /\ rpc \in {"ComputeResiduals", "ComputeResidualGradients"}
     /\ array.name \in MetaNames
     /\ array.type \notin MetaRoles(array.name))
        => /\ srvPc = "done"
           /\ status.code = "INVALID_ARGUMENT"
           /\ ~HoldsValue(inputs, reads)
           /\ ~HoldsValue(outputs, reads)
           /\ callbackCalls = 0

\* witness of C10: a well-formed chunk for the input x, tagged as an output,
\* arrives in ComputeResidualGradients
C10_Witness ==
    /\ rpc = "ComputeResidualGradients"
    /\ reads = 2
    /\ array.name = "x"
    /\ array.type = "kOutput"
    /\ array.start = 0
    /\ array.end = 1
    /\ Len(array.data) = 2
    /\ srvPc = "done"

(***************************************************************************)
(* The explicit read loops and the Output-role chunks: claims C11 and C12.   *)
(***************************************************************************)
\* C11: in ComputeFunction and ComputeGradient, once the handler has read a
\* chunk whose role tag differs from the metadata role of the variable it
\* names, the RPC has ended with an error and no buffer holds an element of
\* that chunk.
C11_ExplicitRoleMismatch ==
    (/\ LastChunkRead
     /\ rpc \in {"ComputeFunction", "ComputeGradient"}
     /\ array.name \in MetaNames
     /\ array.type \notin MetaRoles(array.name))
        => /\ srvPc = "done"
           /\ status.code \notin {"none", "OK"}
           /\ ~HoldsValue(inputs, reads)
           /\ ~HoldsValue(outputs, reads)

\* C12: in ComputeFunction, ComputeGradient and SolveResiduals, once the
\* handler has read a chunk naming a variable whose metadata role is Output,
\* the RPC has ended with INVALID_ARGUMENT, the user callback was not invoked
\* and nothing was written.
C12_OutputInbound ==
    (/\ LastChunkRead
     /\ rpc \in {"ComputeFunction", "ComputeGradient", "SolveResiduals"}
     /\ array.name \in MetaNames
     /\ MetaRoles(array.name) = {"kOutput"})
        => /\ srvPc = "done"
           /\ status.code = "INVALID_ARGUMENT"
           /\ callbackCalls = 0
           /\ outbound = << >>

\* witness of C12: a well-formed chunk for the output f arrives second in a
\* SolveResiduals
C12_Witness ==
    /\ rpc = "SolveResiduals"
    /\ reads = 2
    /\ array.name = "f"
    /\ array.start = 0
    /\ array.end = 0
    /\ Len(array.data) = 1
    /\ srvPc = "done"

(***************************************************************************)
(* The user callback and the hooks: claims C13, C14 and C15.                 *)
(***************************************************************************)
\* C13: in each of the five compute RPCs, a step in which the user callback
\* throws ends the RPC with an INTERNAL status carrying a message, with no
\* outbound chunk written and no exception leaving the handler.
C13_CallbackThrowsInternal ==
    [][(srvPc = "callback" /\ srvPc' = "done")
          => /\ status'.code = "INTERNAL"
             /\ status'.msg # ""
             /\ outbound' = << >>
             /\ escaped' = NoExc]_vars

\* the hook of the Setup or SetOptions RPC just handled threw
HookThrew ==
    \/ hooks.optionsThrows # NoExc
    \/ hooks.setupThrows # NoExc
    \/ hooks.partialsThrows # NoExc

\* C14: once a Setup or SetOptions RPC whose hook threw has been handled, it
\* has returned an INTERNAL status and no exception has left the handler.
C14_HookThrowsInternal ==
    (srvPc = "done" /\ rpc \in {"Setup", "SetOptions"} /\ HookThrew)
        => /\ status.code = "INTERNAL"
           /\ escaped = NoExc

\* the partials metadata the SetupPartials hook of this invocation declares
DeclaredPartials ==
    RunDeclarePartials(<< >>, hooks.vars, hooks.partials, service = "implicit").partials

\* C15: once a Setup RPC has returned OK, the variable metadata and the
\* partials metadata hold exactly what the hooks of that invocation declared.
C15_SetupResets ==
    (srvPc = "done" /\ rpc = "Setup" /\ status.code = "OK")
        => /\ var_meta_ = hooks.vars
           /\ partials_meta_ = DeclaredPartials

\* witness of C15: a second Setup returns OK having declared other variables
\* than the metadata held before
C15_Witness ==
    /\ srvPc = "done"
    /\ rpc = "Setup"
    /\ status.code = "OK"
    /\ rpcCount = 2
    /\ Len(hooks.vars) = 2
    /\ hooks.vars[2].shape = << 3 >>
    /\ Len(hooks.partials) = 1
    /\ partials_meta_ # << >>

(***************************************************************************)
(* The order of reads, callback and writes, cancellation and failed         *)
(* writes: claims C16, C17 and C18.                                          *)
(***************************************************************************)
\* the callback was invoked at most once, never while the handler still
\* reads, and every chunk written was written after it returned
OrderedPhases ==
    /\ callbackCalls <= 1
    /\ srvPc = "reading" => (callbackCalls = 0 /\ outbound = << >>)
    /\ srvPc = "callback" => (callbackCalls = 1 /\ outbound = << >>)
    /\ outbound # << >> => (callbackCalls = 1 /\ srvPc \in {"sending", "done"})

\* C16: within one compute RPC every inbound read happens before the user
\* callback is invoked, the callback is invoked at most once, and every
\* outbound chunk is written after the callback has returned.
C16_ReadCallbackWrite ==
    /\ []OrderedPhases
    /\ [][/\ reads' > reads => (callbackCalls = 0 /\ callbackCalls' = 0)
          /\ callbackCalls' > callbackCalls => (srvPc = "reading" /\ reads' = reads)
          /\ Len(outbound') > Len(outbound)
                => (srvPc = "sending" /\ callbackCalls' = callbackCalls)]_vars

\* witness of C16: a handler that read two chunks and called the callback
\* has written two chunks
C16_Witness ==
    /\ reads = 2
    /\ callbackCalls = 1
    /\ Len(outbound) = 2
    /\ srvPc = "sending"

\* C17: in every compute RPC, once the call's cancellation signal is set no
\* further outbound chunk is written.
C17_CancelStopsSend ==
    [][srvCancelled => Len(outbound') <= Len(outbound)]_vars

\* C18: once an outbound write has failed in a compute RPC, the RPC has ended
\* with a non-OK status describing the failed send, and no further write was
\* attempted.
C18_WriteFailureAborts ==
    failedWrites > 0
        => /\ failedWrites = 1
           /\ srvPc = "done"
           /\ status.code \notin {"OK", "none"}
           /\ status.msg = "Failed to send"
           /\ escaped = NoExc

\* witness of C18: the second write of a Send fails with more chunks to go
C18_Witness ==
    /\ failedWrites = 1
    /\ srvPc = "done"
    /\ Len(outbound) = 1
    /\ srvI = 1
    /\ sendQueue # << >>
    /\ NumChunks(Len(results[Head(sendQueue)].data), stream_opts_) >= 3

(***************************************************************************)
(* The client's deadline and its timeout error: claims C19 and C20.          *)
(***************************************************************************)
\* the context of the call in progress carries a deadline of now plus the
\* configured timeout
DeadlineCarried == call # "none" => deadline = SetDeadline(rpc_timeout_)

\* C19: the configured timeout is 60000 ms until SetRPCTimeout changes it
\* between calls, and every client call in progress carries on its context a
\* deadline of now plus the configured timeout.
C19_DeadlineOnEveryCall ==
    /\ rpc_timeout_ = DefaultTimeout
    /\ [][rpc_timeout_' # rpc_timeout_ => (call = "none" /\ call' = "none")]_vars
    /\ []DeadlineCarried

\* C20: a client call that completed with DEADLINE_EXCEEDED has raised the
\* timeout error, whose message contains the timeout configured at the time
\* of the call; an error raised for any other non-OK status is not the
\* timeout error.
C20_TimeoutClassified ==
    /\ (cliPc = "done" /\ cliStatus.code = "DEADLINE_EXCEEDED")
          => /\ cliOutcome = "threw"
             /\ cliExc.what = "runtime_error: RPC timeout"
             /\ cliExc.timeout = << rpc_timeout_ >>
    /\ (/\ cliPc = "done"
        /\ cliStatus.code \notin {"none", "OK", "DEADLINE_EXCEEDED"}
        /\ cliOutcome = "threw")
          => cliExc.what # "runtime_error: RPC timeout"


(***************************************************************************)
(* Selective send in the client's compute calls: claims C21 and C22.         *)
(***************************************************************************)
\* the names of the chunks the call in progress has written
SentNames == {cliSent[k].name : k \in 1 .. Len(cliSent)}

\* the names the client's metadata declares with Input role
InputNames ==
    {cliVarMeta[k].name : k \in {j \in 1 .. Len(cliVarMeta) : cliVarMeta[j].type = "kInput"}}

\* the call in progress threw inside its loop over the variable metadata
ThrewWhileSending ==
    /\ cliPc = "done"
    /\ cliOutcome = "threw"
    /\ metaIdx >= 1
    /\ metaIdx <= Len(cliVarMeta)

C22_ImplicitSelectiveSend ==
    (call \in ImplicitKinds /\ ThrewWhileSending)
        => cliVarMeta[metaIdx].name \in DOMAIN callVars

\* C22 as amended: SolveResiduals skips a declared Input the caller did not
\* supply and transmits exactly the declared Inputs supplied, while
\* ComputeResiduals and ComputeResidualGradients never pass a declared
\* variable the caller did not supply: they throw std::out_of_range at it.
C22_Amended ==
    /\ call = "SolveResiduals"
          => /\ SentNames \subseteq (InputNames \cap DOMAIN callVars)
             /\ cliPc = "reading" => SentNames = InputNames \cap DOMAIN callVars
             /\ ThrewWhileSending => cliVarMeta[metaIdx].name \in DOMAIN callVars
    /\ call \in {"ComputeResiduals", "ComputeResidualGradients"}
          => /\ \A k \in 1 .. Len(cliVarMeta) :
                   k < metaIdx => cliVarMeta[k].name \in DOMAIN callVars
             /\ (ThrewWhileSending /\ cliVarMeta[metaIdx].name \notin DOMAIN callVars)
                   => cliExc.what = "out_of_range"

\* witness of C22: a ComputeResiduals whose caller passed x but not the
\* output f has sent x and thrown std::out_of_range
C22_Witness ==
    /\ call = "ComputeResiduals"
    /\ ThrewWhileSending
    /\ DOMAIN callVars = {"x"}
    /\ SentNames = {"x"}
    /\ cliExc.what = "out_of_range"


(***************************************************************************)
(* Partial-shape inference: claims C23 to C25.                               *)
(***************************************************************************)
\* the positions of the Output entries named name
OutputEntries(name) ==
    {k \in 1 .. Len(declVarMeta) :
        declVarMeta[k].name = name /\ declVarMeta[k].type = "kOutput"}

\* the positions of the Input entries named name
InputEntries(name) ==
    {k \in 1 .. Len(declVarMeta) :
        declVarMeta[k].name = name /\ declVarMeta[k].type = "kInput"}

\* the positions of the entries eligible as the `with respect to' variable
EligibleEntries(name) ==
    IF discipline = "implicit"
    THEN InputEntries(name) \cup OutputEntries(name)
    ELSE InputEntries(name)

\* the shape of the one entry of a singleton set of positions
ShapeAt(entries) == declVarMeta[CHOOSE k \in entries : TRUE].shape

\* the combine rule as the specification words it
Combine(Sf, Sx) ==
    CASE Sf = << 1 >> /\ Sx = << 1 >> -> << 1 >>
      [] Sf = << 1 >> /\ Sx # << 1 >> -> Sx
      [] Sf # << 1 >> /\ Sx = << 1 >> -> Sf
      [] OTHER -> Sf \o Sx

\* the last call was DeclarePartials
Declared == lastDecl.op = "DeclarePartials"

\* the last DeclarePartials call appended one entry (f, x) of shape s
AppendedOne(s) ==
    /\ lastDecl.exc = NoExc
    /\ declPartials = Append(lastDecl.before,
                             [name |-> lastDecl.f, subname |-> lastDecl.x,
                              shape |-> s])

\* C23: when DeclarePartials(f, x) is called with one Output entry named f, of
\* shape Sf, and one eligible entry named x, of shape Sx, it appends exactly
\* one partials entry (f, x) whose shape is [1] if both are [1], Sx if only Sf
\* is [1], Sf if only Sx is [1], and Sf followed by Sx otherwise.
C23_PartialShape ==
    (/\ Declared
     /\ Cardinality(OutputEntries(lastDecl.f)) = 1
     /\ Cardinality(EligibleEntries(lastDecl.x)) = 1)
        => AppendedOne(Combine(ShapeAt(OutputEntries(lastDecl.f)),
                               ShapeAt(EligibleEntries(lastDecl.x))))

\* witness of C23: an output of shape [3] and an input of shape [1, 2] gave a
\* partial of shape [3, 1, 2]
C23_Witness ==
    /\ Declared
    /\ lastDecl.exc = NoExc
    /\ lastDecl.f # lastDecl.x
    /\ Len(declPartials) = 1
    /\ declPartials[1].shape = << 3, 1, 2 >>

\* C24: DeclarePartials(f, x) throws when no Output entry is named f or no
\* eligible entry is named x, and the partials metadata is then what it was
\* before the call.
C24_NotFoundLeavesPartials ==
    (/\ Declared
     /\ \/ OutputEntries(lastDecl.f) = {}
        \/ EligibleEntries(lastDecl.x) = {})
        => /\ lastDecl.exc = "runtime_error"
           /\ declPartials = lastDecl.before

\* witness of C24: after one partial was declared, a DeclarePartials naming
\* an undeclared variable threw
C24_Witness ==
    /\ Declared
    /\ lastDecl.exc = "runtime_error"
    /\ Len(lastDecl.before) = 1
    /\ discipline = "implicit"
    /\ EligibleEntries(lastDecl.x) = {}

\* C25: Discipline::DeclarePartials(f, y) throws when y is declared only as
\* an Output, while ImplicitDiscipline::DeclarePartials(f, y) for declared
\* Outputs f and y, the same or different, appends the entry with the shape
\* of the combine rule.
C25_OutputAsX ==
    (/\ Declared
     /\ OutputEntries(lastDecl.x) # {}
     /\ InputEntries(lastDecl.x) = {})
        => /\ discipline = "explicit"
              => /\ lastDecl.exc = "runtime_error"
                 /\ declPartials = lastDecl.before
           /\ (/\ discipline = "implicit"
               /\ Cardinality(OutputEntries(lastDecl.f)) = 1
               /\ Cardinality(OutputEntries(lastDecl.x)) = 1)
              => AppendedOne(Combine(ShapeAt(OutputEntries(lastDecl.f)),
                                     ShapeAt(OutputEntries(lastDecl.x))))

\* witness of C25: an implicit discipline declared the partial of an output
\* of shape [3] with respect to itself
C25_Witness ==
    /\ Declared
    /\ discipline = "implicit"
    /\ lastDecl.f = lastDecl.x
    /\ InputEntries(lastDecl.x) = {}
    /\ lastDecl.exc = NoExc
    /\ lastDecl.shape = << 3, 3 >>


(***************************************************************************)
(* The Variable constructors: claim C28.                                     *)
(***************************************************************************)
\* C28: a Variable constructed from an empty shape, or from a shape with a
\* dimension of 0, has a buffer of length 0, and every constructed Variable
\* has a buffer whose length is the product of its dimensions.
C28_ConstructedLength ==
    ctorArgs.ctor # "none"
        => /\ (\/ ctorArgs.shape = << >>
               \/ \E k \in 1 .. Len(ctorArgs.shape) : ctorArgs.shape[k] = 0)
                 => Len(constructed.data) = 0
           /\ Len(constructed.data) = Product(ctorArgs.shape)


(***************************************************************************)
(* The chunk size of a discipline: claims C26 and C27.                       *)
(***************************************************************************)
\* C26: the discipline's chunk size is 1000 until the first SetStreamOptions
\* RPC and greater than 0 in every state, whatever a SetStreamOptions request
\* carried; in particular no Send runs with a chunk size of 0 or less.
C26_ChunkSizePositive ==
    /\ ~streamRequest.set => stream_opts_ = 1000
    /\ stream_opts_ > 0
    /\ srvPc = "sending" => stream_opts_ > 0

\* C27: once a SetStreamOptions RPC with chunk size n has returned OK, every
\* chunk a compute RPC writes carries at most n payload elements, n being the
\* value of the last such RPC.
C27_ChunksWithinNegotiated ==
    streamRequest.set
        => \A k \in 1 .. Len(outbound) :
              Len(outbound[k].data) <= streamRequest.num_double


(***************************************************************************)
(* Buffer lengths against the metadata: claim C29.                           *)
(***************************************************************************)
\* the size the server's metadata declares for a name
DeclaredSize(name) == Product(var_meta_[LookupIndex(var_meta_, name)].shape)

\* what a client's Send puts on the stream for a caller's input x of m
\* elements, each 1, with the client's chunk size c
CallerSends(m, c) ==
    SendAll([type |-> "kInput", shape |-> << m >>, data |-> [k \in 1 .. m |-> 1]],
            "x", "", c).chunks

\* C29: when the chunks a compute handler has read are the Send of a caller's
\* input x whose buffer length differs from the size the metadata declares
\* for x, the handler does not invoke the user callback and return OK.
C29_LengthMismatchRejected ==
    \A m \in 0 .. MaxLen, c \in 1 .. MaxCliChunk :
        (/\ rpc \in Kinds
         /\ reads = 1
         /\ LookupIndex(var_meta_, "x") # 0
         /\ CallerSends(m, c) = << array >>
         /\ m # DeclaredSize("x"))
            => ~(callbackCalls > 0 /\ status.code = "OK")

(***************************************************************************)
(* The results a compute RPC sends back: claim C30.                          *)
(***************************************************************************)
\* the (name, subname) identities of the chunks the RPC wrote
OutboundIds == {<< outbound[k].name, outbound[k].subname >> : k \in 1 .. Len(outbound)}

\* the names the server's metadata declares with a role
NamesWithRole(type) ==
    {var_meta_[k].name : k \in {j \in 1 .. Len(var_meta_) : var_meta_[j].type = type}}

\* the (output, input) pairs the server's partials metadata declares
PartialPairs ==
    {<< partials_meta_[k].name, partials_meta_[k].subname >> :
        k \in 1 .. Len(partials_meta_)}

\* C30: when a compute RPC has returned OK, the identities of the chunks it
\* wrote are every Output-role name and no Input-role name for
\* ComputeFunction, SolveResiduals and ComputeResiduals, and every declared
\* partial pair, output name and input name together, for ComputeGradient and
\* ComputeResidualGradients.
C30_ResultSet ==
    (rpc \in Kinds /\ srvPc = "done" /\ status.code = "OK")
        => IF rpc \in {"ComputeGradient", "ComputeResidualGradients"}
           THEN OutboundIds = PartialPairs
           ELSE /\ OutboundIds = {<< n, "" >> : n \in NamesWithRole("kOutput")}
                /\ \A k \in 1 .. Len(outbound) :
                      outbound[k].name \notin NamesWithRole("kInput")

\* witness of C30: a ComputeResidualGradients has returned OK having sent the
\* partials of f with respect to x and to f
C30_Witness ==
    /\ rpc = "ComputeResidualGradients"
    /\ srvPc = "done"
    /\ status.code = "OK"
    /\ OutboundIds = {<< "f", "x" >>, << "f", "f" >>}


(***************************************************************************)
(* The order in which inbound chunks are applied: claim C31.                 *)
(***************************************************************************)
\* element j (from 0) of the buffer named name lies in the range of chunk c
Covers(c, name, j) == c.name = name /\ c.start <= j /\ j <= c.end

\* the n-th chunk read carries the value n in every element: an element of an
\* input buffer holds 0 before any read, the ordinal of the last chunk read
\* where that chunk covers it, and an earlier ordinal or 0 elsewhere
LastChunkWins ==
    (rpc \in Kinds /\ srvPc \in {"reading", "callback"})
        => \A name \in DOMAIN inputs : \A k \in DOMAIN inputs[name].data :
              IF reads > 0 /\ Covers(array, name, k - 1)
              THEN inputs[name].data[k] = reads
              ELSE /\ inputs[name].data[k] >= 0
                   /\ inputs[name].data[k] < reads \/ inputs[name].data[k] = 0

\* a read that leaves the handler in its read loop wrote the chunk's payload
\* over its range and left every other input element as it was
AppliedInOrder ==
    (srvPc = "reading" /\ srvPc' = "reading" /\ reads' = reads + 1)
        => /\ DOMAIN inputs' = DOMAIN inputs
           /\ \A name \in DOMAIN inputs : \A k \in DOMAIN inputs[name].data :
                 inputs'[name].data[k] =
                    IF Covers(array', name, k - 1)
                    THEN array'.data[k - array'.start]
                    ELSE inputs[name].data[k]

\* C31: within one compute RPC the inbound chunks are applied in the order
\* received, so that when the user callback is invoked each element of each
\* input buffer holds the payload of the last valid chunk received that
\* covers it, or 0 if none did.
C31_AppliedInOrder ==
    /\ []LastChunkWins
    /\ [][AppliedInOrder]_vars
    /\ [][callbackCalls' > callbackCalls => inputs' = inputs]_vars

\* witness of C31: the callback runs after a chunk covering x[0..1] and then
\* a chunk covering x[0] were read
C31_Witness ==
    /\ srvPc = "callback"
    /\ reads = 2
    /\ "x" \in DOMAIN inputs
    /\ inputs["x"].data = << 2, 1 >>


(***************************************************************************)
(* SetOptions and the Configure hook: claim C32.                             *)
(***************************************************************************)
\* how often the SetOptions RPC in progress entered the Configure hook
ConfigureCalls ==
    Cardinality({k \in 1 .. Len(hooks.optionCalls) : hooks.optionCalls[k] = "Configure"})

StartsSetupOrOptions == srvPc = "idle" /\ rpc' \in {"Setup", "SetOptions"}

\* C33: between two Setup RPCs the variable metadata and the partials metadata
\* do not change: GetInfo, SetStreamOptions, GetVariableDefinitions,
\* GetPartialDefinitions, GetAvailableOptions and the compute RPCs, in every
\* step they take, leave both lists as they were
C33_MetadataFramed ==
    [][~StartsSetupOrOptions
          => var_meta_' = var_meta_ /\ partials_meta_' = partials_meta_]_vars

C33_Witness ==
    /\ rpc = "GetVariableDefinitions"
    /\ srvPc = "done"
    /\ written # << >>
    /\ written = var_meta_
    /\ rpcCount = 2


\* ---------------------------------------------------------------------------
\* C34  a compute RPC sees nothing of an earlier one
\* ---------------------------------------------------------------------------

\* every buffer of the map is zero-filled
AllZero(m) == \A key \in DOMAIN m : \A k \in DOMAIN m[key].data : m[key].data[k] = 0

\* the names the metadata declares with the role
DeclaredAs(type) ==
    {var_meta_[k].name : k \in {j \in 1 .. Len(var_meta_) : var_meta_[j].type = type}}

\* the handler starts: its maps have the metadata's keys and hold zeros only
FreshOnEntry ==
    (srvPc = "idle" /\ srvPc' = "reading")
        => /\ DOMAIN inputs' = DeclaredAs("kInput")
           /\ AllZero(inputs') /\ AllZero(outputs') /\ AllZero(results')

\* inside the RPC an input element changes only to the payload of the chunk
\* just read, at the offset that chunk names
ChangedOnlyByChunk ==
    (srvPc # "idle" /\ srvPc' # "idle" /\ inputs' # inputs)
        => /\ srvPc = "reading" /\ reads' = reads + 1
           /\ DOMAIN inputs' = DOMAIN inputs
           /\ \A name \in DOMAIN inputs : \A k \in DOMAIN inputs[name].data :
                 inputs'[name].data[k] # inputs[name].data[k]
                     => /\ Covers(array', name, k - 1)
                        /\ inputs'[name].data[k] = array'.data[k - array'.start]

\* the callback is entered with zero-filled result buffers
FreshResults == (srvPc = "reading" /\ srvPc' = "callback") => AllZero(results')

\* the handler's maps do not outlive the RPC
NothingKept ==
    srvPc = "idle" => inputs = EmptyMap /\ outputs = EmptyMap /\ results = EmptyMap

\* C34: the inputs handed to the callback depend only on the chunks of that
\* RPC and on the metadata: the maps are created zero-filled from the
\* metadata when the RPC starts, change only by the chunks the RPC reads, the
\* result buffers are zero-filled when the callback is entered, and nothing
\* of the maps is kept when the RPC ends, so no value of an earlier compute
\* RPC is visible in a later one's input, output or partial buffers
C34_NoCarryOver ==
    /\ [][FreshOnEntry]_vars
    /\ [][ChangedOnlyByChunk]_vars
    /\ [][FreshResults]_vars
    /\ []NothingKept

C34_Witness ==
    /\ rpcCount = 2
    /\ rpc \in Kinds
    /\ srvPc = "callback"
    /\ reads = 1
    /\ "x" \in DOMAIN inputs
    /\ inputs["x"].data = << 0, 1 >>
    /\ results # EmptyMap


\* ---------------------------------------------------------------------------
\* C36  a failed Setup RPC and the metadata
\* ---------------------------------------------------------------------------

\* a Setup RPC is handled and returns INTERNAL
SetupFails == srvPc = "idle" /\ rpc' = "Setup" /\ status'.code = "INTERNAL"

\* C36: the Setup RPC is all-or-nothing: if it returns INTERNAL because the
\* Setup hook or the SetupPartials hook threw, the variable metadata and the
\* partials metadata are the same as before the RPC started.
C36_SetupAllOrNothing ==
    [][SetupFails => var_meta_' = var_meta_ /\ partials_meta_' = partials_meta_]_vars

\* C36 as it holds: once a Setup RPC has returned INTERNAL because a hook
\* threw, the metadata of before the RPC is gone; the variable metadata holds
\* what the Setup hook of this RPC declared and the partials metadata what its
\* SetupPartials hook declared before the throw (nothing when the Setup hook
\* threw), and that is what later RPCs observe.
C36_Amended ==
    (srvPc = "done" /\ rpc = "Setup" /\ status.code = "INTERNAL")
        => /\ var_meta_ = hooks.vars
           /\ partials_meta_ = IF hooks.setupThrows # NoExc THEN << >>
                               ELSE DeclaredPartials

C36_Witness ==
    /\ srvPc = "done" /\ rpc = "Setup" /\ status.code = "INTERNAL"
    /\ rpcCount = 2
    /\ hooks.setupThrows = NoExc
    /\ hooks.partialsThrows # NoExc
    /\ Len(partials_meta_) = 1
    /\ var_meta_ # << >>


\* ---------------------------------------------------------------------------
\* C37  compute RPCs before Setup
\* ---------------------------------------------------------------------------

\* C37: a compute RPC never invokes the user callback on a discipline for
\* which no Setup RPC has completed successfully; such an RPC ends with an
\* error status instead.
C37_NoCallbackBeforeSetup ==
    (rpc \in Kinds /\ ~setupOk)
        => /\ callbackCalls = 0
           /\ srvPc = "done" => status.code # "OK"


\* ---------------------------------------------------------------------------
\* C39  Discipline::IsCancelled during the callback
\* ---------------------------------------------------------------------------

\* Discipline::current_context_ as the compute handlers leave it: it is
\* assigned by SetContext and ClearContext only, and no handler calls either
\* around the callback, so it is null throughout the RPC
CurrentContext == "nullptr"

\* Discipline::IsCancelled:
\* current_context_ != nullptr && current_context_->IsCancelled()
IsCancelled == CurrentContext # "nullptr" /\ srvCancelled

\* C39: while the user callback of a compute RPC runs, IsCancelled() reflects
\* the cancellation state of the RPC's server context, and IsCancelled() is
\* false whenever no compute RPC is in progress.
C39_IsCancelledReflects ==
    /\ (rpc \in Kinds /\ srvPc = "callback") => (IsCancelled <=> srvCancelled)
    /\ srvPc = "idle" => ~IsCancelled


\* ---------------------------------------------------------------------------
\* C38  the keys of a client call's result
\* ---------------------------------------------------------------------------

\* the result set the client's metadata declares for the call
CliDeclaredKeys ==
    IF ReturnsPartials(call)
    THEN {<< cliPartialsMeta[k].name, cliPartialsMeta[k].subname >> :
             k \in 1 .. Len(cliPartialsMeta)}
    ELSE {cliVarMeta[k].name :
             k \in {j \in 1 .. Len(cliVarMeta) : cliVarMeta[j].type = "kOutput"}}

\* a chunk was read whose key the metadata does not declare
UndeclaredRead ==
    /\ cliPc = "reading" /\ cliReads' = cliReads + 1
    /\ \E key \in DOMAIN cliResult' : key \notin CliDeclaredKeys

\* C38: whenever a client compute call returns normally, the key set of the
\* returned map is exactly the result set its metadata declares, and a chunk
\* naming a variable or pair the metadata does not declare makes the call
\* raise an error.
C38_ResultKeysDeclared ==
    /\ [](call \in Kinds /\ cliOutcome = "returned"
             => DOMAIN cliResult = CliDeclaredKeys)
    /\ [][UndeclaredRead => cliOutcome' = "threw"]_vars

\* a chunk of an undeclared name ended the call with an exception
C38_UndeclaredWitness ==
    /\ call \in Kinds
    /\ cliOutcome = "threw"
    /\ cliReads = 1
    /\ \E key \in DOMAIN cliResult : key \notin CliDeclaredKeys

C38_Witness ==
    /\ call \in Kinds /\ cliOutcome = "returned" /\ cliReads = 1
    /\ cliResult # EmptyMap


\* ---------------------------------------------------------------------------
\* C40  the three overloads of Variable::Send
\* ---------------------------------------------------------------------------

\* the chunks the overload writes for the buffer when nothing cancels and no
\* write fails: those of its loop up to the first CreateChunk that throws
WrittenBy(ov, v, csize) ==
    LET nc == NumChunksOf(ov, Len(v.data), csize)
        ok(i) == SendChunk(v, "x", "", i, csize).exc = NoExc
        m == Cardinality({i \in 0 .. (nc - 1) : \A j \in 0 .. i : ok(j)})
    IN  [k \in 1 .. m |-> SendChunk(v, "x", "", k - 1, csize).chunk]

\* Send is over, without a cancellation and without a failed write
SendUndisturbed ==
    /\ sendPc \in {"returned", "threw"}
    /\ sendExc \notin {"runtime_error: cancelled", "runtime_error: write failed"}

SoloSteps(r) ==
    UNION {SetupOf(r), SetStreamOptionsOf(r), BeginOf(r), ReadOf(r),
           CallbackOf(r), SendOf(r), ReturnOf(r),
           IF r.pc = "sending" /\ r.stream_opts_ = 0 /\ r.outputs # EmptyMap
           THEN {Killed(r)} ELSE {}}

\* C35: RPCs running concurrently against different discipline instances do
\* not interfere: every step is a step of one RPC, exactly one it could take
\* had it run alone, and it leaves the status, the callback arguments and the
\* outbound chunks of the RPC on the other discipline as they were.
C35_NoInterference ==
    [][\E i \in Instances :
          /\ insts'[i] \in SoloSteps(insts[i])
          /\ \A j \in Instances \ {i} : insts'[j] = insts[j]]_vars


\* apart from the death of the process, the steps do not interfere
C35_ExceptProcessDeath ==
    [][process' = "running"
          => \E i \in Instances :
                /\ insts'[i] \in SoloSteps(insts[i])
                /\ \A j \in Instances \ {i} : insts'[j] = insts[j]]_vars

=============================================================================
